---- MODULE Spec2Model ----
(***************************************************************************)
(* A model of the neodb -> AniList migration scripts:                      *)
(*   smart_convert_v2.py       SmartMALToAniListConverter  (prog "smart")  *)
(*   step2_map_to_anilist.py   IMDBToAniListMapper         (prog "step2")  *)
(*   convert_manga_to_anilist.py NeoDBToAniListMangaConverter ("manga")    *)
(* Each is a sequential process: it loads its search cache from a JSON    *)
(* file, walks the candidate list, asks remote services, rewrites the     *)
(* cache file after every definitive answer and writes a report.          *)
(*                                                                         *)
(* A title is a sequence of characters over a small alphabet that keeps    *)
(* every character class the code's regular expressions tell apart.        *)
(***************************************************************************)
EXTENDS Integers, Sequences, FiniteSets, TLC

----------------------------------------------------------------------------
(* Characters.  "a": an ASCII letter; "2": a digit; "KA": a kana           *)
(* character; "DI": the season marker U+7B2C; "KI": U+5B63.  One symbol    *)
(* stands for each keyword of the classifiers: 'manga' in lower and in     *)
(* upper case, and 'anime'.                                                *)

SP == " "
LP == "("
RP == ")"
DI == "DI"
KI == "KI"
KA == "KA"
SL == "/"
CM == ","
KwManga == "manga"
KwMangaUpper == "MANGA"
KwAnime == "anime"

\* the class [a-zA-Z0-9\s\-:!?.,()&] of get_best_english_title
EnglishClass == {"a", "2", SP, LP, RP, CM, KwManga, KwMangaUpper, KwAnime}

\* the class [\d] of the season pattern (the CJK numerals are not in the alphabet)
SeasonNumeral == {"2"}

\* str.strip(): leading and trailing whitespace removed
RECURSIVE LStrip(_)
LStrip(t) ==
    IF t # <<>> /\ Head(t) = SP THEN LStrip(Tail(t)) ELSE t

RECURSIVE RStrip(_)
RStrip(t) ==
    IF t # <<>> /\ t[Len(t)] = SP THEN RStrip(SubSeq(t, 1, Len(t) - 1)) ELSE t

Strip(t) == RStrip(LStrip(t))

\* first index >= i of t that holds no whitespace (Len(t)+1 when there is none)
RECURSIVE SkipSpaces(_, _)
SkipSpaces(t, i) ==
    IF i <= Len(t) /\ t[i] = SP THEN SkipSpaces(t, i + 1) ELSE i

\* first index >= i of t that holds c (0 when there is none)
RECURSIVE IndexFrom(_, _, _)
IndexFrom(t, c, i) ==
    IF i > Len(t) THEN 0
    ELSE IF t[i] = c THEN i
    ELSE IndexFrom(t, c, i + 1)

\* re.sub(r'\s*\([^)]*\)', '', t), scanning from index i
RECURSIVE SubParensFrom(_, _)
SubParensFrom(t, i) ==
    IF i > Len(t) THEN <<>>
    ELSE LET j == SkipSpaces(t, i)
             k == IF j <= Len(t) /\ t[j] = LP THEN IndexFrom(t, RP, j + 1) ELSE 0
         IN  IF k > 0 THEN SubParensFrom(t, k + 1)
             ELSE <<t[i]>> \o SubParensFrom(t, i + 1)

\* re.sub(r'\s*\([^)]*\)', '', title).strip()
StripParens(t) == Strip(SubParensFrom(t, 1))

\* first index >= i of t that holds no season numeral
RECURSIVE SkipNumerals(_, _)
SkipNumerals(t, i) ==
    IF i <= Len(t) /\ t[i] \in SeasonNumeral THEN SkipNumerals(t, i + 1) ELSE i

\* re.sub(r'\s*DI[numerals]+KI?', '', t), scanning from index i
RECURSIVE SubSeasonFrom(_, _)
SubSeasonFrom(t, i) ==
    IF i > Len(t) THEN <<>>
    ELSE LET j == SkipSpaces(t, i)
             n == IF j <= Len(t) /\ t[j] = DI THEN SkipNumerals(t, j + 1) ELSE 0
             e == IF n <= Len(t) /\ n > 0 /\ t[n] = KI THEN n + 1 ELSE n
         IN  IF n > j + 1 THEN SubSeasonFrom(t, e)
             ELSE <<t[i]>> \o SubSeasonFrom(t, i + 1)

StripSeason(t) == Strip(SubSeasonFrom(t, 1))

\* re.match(r'^[a-zA-Z0-9\s\-:!?.,()&]+$', title)
IsEnglish(t) == t # <<>> /\ \A i \in 1..Len(t) : t[i] \in EnglishClass

\* title.split(DI)[0].strip()
BaseTitle(t) ==
    LET p == IndexFrom(t, DI, 1)
    IN  Strip(IF p = 0 THEN t ELSE SubSeq(t, 1, p - 1))

\* the fallback of get_best_english_title: parentheses, then season marker, removed
CleanTitle(t) == StripSeason(StripParens(t))

----------------------------------------------------------------------------
(* Bounds of the model.                                                    *)

\* longest candidate list of a run
MaxCands == 2

----------------------------------------------------------------------------
(* Python values held by search_cache, and the JSON text of the cache      *)
(* file.  A media dict is reduced to its id.                               *)

MediaIds == {1, 2}

PyNone == [none |-> TRUE, id |-> 0]

Media(n) == [none |-> FALSE, id |-> n]

\* Python truthiness of a cache value: None is falsy, a media dict is not
Truthy(v) == ~v.none

EmptyCache == [t \in {} |-> PyNone]

EmptyMembers == [t \in {} |-> [json |-> "null", id |-> 0]]

\* os.path.exists(cache_file) is false
NoFile == [kind |-> "absent", members |-> EmptyMembers]

\* open(cache_file, 'w') has truncated the file and json.dump has not completed
TornFile == [kind |-> "torn", members |-> EmptyMembers]

\* (a dump that writes every value as an object, losing null)
JsonValueSkipNull(v) == [json |-> "object", id |-> v.id]

\* json.dump of one cache value: None is written as null
JsonValue(v) ==
    IF v.none THEN [json |-> "null", id |-> 0] ELSE [json |-> "object", id |-> v.id]

\* (a load that reads null as a media object)
PyValueNullAsObject(j) == Media(j.id)

\* json.load of one member value: null is read as None
PyValue(j) == IF j.json = "null" THEN PyNone ELSE Media(j.id)

\* json.dump(self.search_cache, f): the text of the whole mapping
JsonDump(cache) ==
    [kind |-> "json", members |-> [t \in DOMAIN cache |-> JsonValue(cache[t])]]

\* json.load(f) of a complete file
JsonLoad(file) == [t \in DOMAIN file.members |-> PyValue(file.members[t])]

\* dict assignment cache[key] = value
Put(cache, key, value) ==
    [t \in DOMAIN cache \cup {key} |-> IF t = key THEN value ELSE cache[t]]

\* (a constructor that forgets what the file holds)
LoadNothing(file) == EmptyCache

\* SmartMALToAniListConverter.load_cache and IMDBToAniListMapper.load_cache:
\* a missing file and a file json.load rejects both give {}
load_cache(file) ==
    IF file.kind = "json" THEN JsonLoad(file) ELSE EmptyCache

\* NeoDBToAniListMangaConverter.load_cache: no try/except, json.load raises
Manga_load_cache(file) ==
    IF file.kind = "absent" THEN [raised |-> FALSE, cache |-> EmptyCache]
    ELSE IF file.kind = "torn" THEN [raised |-> TRUE, cache |-> EmptyCache]
    ELSE [raised |-> FALSE, cache |-> JsonLoad(file)]

\* the three-valued read: `key in cache`, then cache[key]
NOT_PRESENT == [none |-> TRUE, id |-> -1]

CacheGet(cache, key) ==
    IF key \in DOMAIN cache THEN cache[key] ELSE NOT_PRESENT

----------------------------------------------------------------------------
(* Inputs: the candidate lists, the cross-reference table and the answers   *)
(* of the remote services.                                                  *)

\* IMDB ids as the pattern imdb:(tt\d+) extracts them; NoId: no 'imdb' key
NoId == <<>>

tt1 == <<"t", "t", "1">>

tt2 == <<"t", "t", "2">>

Cand(title, imdb, tmdb) == [title |-> title, imdb |-> imdb, tmdb |-> tmdb]

\* candidates parse_neodb_data can produce (prog "smart")
SmartPool ==
    { Cand(<<"a">>, NoId, FALSE),
      Cand(<<"a", SP, LP, "2", RP>>, NoId, FALSE),
      Cand(<<KA, DI, "2", KI>>, tt1, TRUE) }

\* candidates of filtered_anime.json (prog "step2")
MapperPool ==
    { Cand(<<KA>>, tt1, FALSE),
      Cand(<<"a">>, tt2, FALSE),
      Cand(<<"a">>, NoId, FALSE) }

\* candidates parse_neodb_books can produce (prog "manga")
MangaPool ==
    { Cand(<<"a">>, NoId, FALSE),
      Cand(<<"a", SP, LP, "2", RP>>, NoId, FALSE),
      Cand(<<KA>>, NoId, FALSE) }

Pool(p) ==
    IF p = "smart" THEN SmartPool
    ELSE IF p = "step2" THEN MapperPool
    ELSE MangaPool

Programs == {"smart", "step2", "manga"}

\* all lists of 1..n candidates of the pool
Lists(S, n) == UNION { [1..m -> S] : m \in 1..n }

\* answers of the title lookups (IMDB page, TMDB API): a title, or nothing usable
NoTitle == <<>>

LookupTitles == { <<"a">> }

TitleResponses == LookupTitles \cup {NoTitle}

\* answers of the AniList search: status 200 with a ranked media list, another
\* status, or an exception raised by the request
Resp(kind, code, media) == [kind |-> kind, code |-> code, media |-> media]

\* ranked media lists: no result, one result, a best match and a runner-up
RankedLists == { <<>>, <<1>>, <<1, 2>> }

Responses ==
    { Resp("http", 200, m) : m \in RankedLists }
    \cup { Resp("http", 429, <<>>), Resp("http", 500, <<>>), Resp("exception", 0, <<>>) }

\* a response that settles the key: status 200, match or empty
Definitive(resp) == resp.kind = "http" /\ resp.code = 200

----------------------------------------------------------------------------
VARIABLES
    prog,             \* which script this installation runs
    anime_list,       \* the candidates the run reads (the same in every run)
    id_table,         \* the cross-reference table served to load_id_mapping
    disk,             \* the cache file
    search_cache,     \* self.search_cache
    id_mapping,       \* self.id_mapping
    pc,               \* where the process is
    i,                \* index of the candidate the loop is at
    english_title,    \* convert_to_anilist's english_title
    search_attempts,  \* convert_to_anilist's search_attempts
    k,                \* index of the attempt the fallback loop is at
    converted_list,   \* convert_to_anilist's converted_list
    failed_searches,  \* convert_to_anilist's failed_searches / failed_list
    skipped_count,    \* convert_to_anilist's skipped_count
    report,           \* the report this process has written
    prev,             \* history: the report of the process before this one
    cnet,             \* history: network calls for the current candidate so far
    cpre,             \* history: cache state of each attempt when the candidate began
    last,             \* history: the candidate settled last (see Row)
    clean,            \* history: no search of this run ended in an error
    putLog,           \* history: every completed cache write, key -> value
    wrote,            \* history: this run has written the cache
    hitSearched,      \* history: a search was sent for a key present in the cache
    mapping_loaded,   \* what load_id_mapping returned ("unknown" before the call)
    api_delay,        \* self.api_delay, in tenths of a second
    call,             \* history: the last call of the remote client (see CallRecord)
    waited,           \* history: time slept since the last request was sent
    gap,              \* history: time slept between the last two requests (-1: none)
    entries,          \* the entries the import batch submits
    success_count,    \* import_to_anilist's success_count
    failed_count,     \* import_to_anilist's failed_count
    failed_entries,   \* import_to_anilist's failed_entries
    submitted,        \* history: mutation requests sent by the import batch
    row,              \* the CSV row being read (title, info, links, status, rating)
    imdb_anime_cache, \* AnimeFilter.imdb_anime_cache (step1_filter_anime.py)
    answer,           \* history: what the last operation on the row returned
    verdicts,         \* history: the verdicts of the classifier calls so far
    imdb_cache_file,  \* the file imdb_anime_cache.json of the anime filter
    failed_file,      \* the side file tmp/failed_entries.json (failed_manga_entries.json)
    still_failed,     \* retry_failed_imports' still_failed
    neodb_metadata,   \* load_neodb_metadata's result: the rows by title, in dict order
    detailed,         \* per entry, the CSV title it was converted from and its score
    sent,             \* history: the mutations of the current pass, with their answers
    validation,       \* history: how the token validation request ended
    passes,           \* history: retry passes begun
    peer,             \* the other process on the same cache file, while it is not running
    deleted_count     \* delete_all_entries' deleted_count

progVars == <<prog, anime_list, id_table>>

cacheVars == <<disk, search_cache, putLog, wrote, hitSearched>>

loopVars == <<english_title, search_attempts, k>>

mapVars == <<id_mapping, mapping_loaded>>

\* the remote client and the import batch
clientVars ==
    <<api_delay, call, waited, gap, entries, success_count, failed_count,
      failed_entries, submitted>>

listVars == <<converted_list, failed_searches, skipped_count>>

\* the row of the CSV file and what the record functions made of it
recordVars == <<row, imdb_anime_cache, answer, verdicts, imdb_cache_file>>

\* the side file of the import scripts, the retry pass, the CSV metadata, a second
\* process on the cache file and the bulk-delete script
sideVars ==
    <<failed_file, still_failed, neodb_metadata, detailed, sent, validation, passes, peer,
      deleted_count>>

vars ==
    <<prog, anime_list, id_table, disk, search_cache, id_mapping, pc, i,
      english_title, search_attempts, k, converted_list, failed_searches,
      skipped_count, report, prev, cnet, cpre, last, clean, putLog, wrote,
      hitSearched, mapping_loaded, api_delay, call, waited, gap, entries,
      success_count, failed_count, failed_entries, submitted, row,
      imdb_anime_cache, answer, verdicts, imdb_cache_file, failed_file, still_failed,
      neodb_metadata, detailed, sent, validation, passes, peer, deleted_count>>

NoReport ==
    [written |-> FALSE, entries |-> <<>>, failed |-> <<>>, total |-> 0, successful |-> 0,
     failedCount |-> 0, skipped |-> 0, clean |-> TRUE]

NoNet == [search |-> 0, title |-> 0, errors |-> 0]

\* history: what a later run is compared with: whether the report was written,
\* whether every search of the run was definitive, and per candidate the media id
\* of its entry (0: the candidate is in the failed list)
Summary(r) ==
    [written |-> r.written, clean |-> r.clean,
     ids |-> [c \in 1..r.total |->
                IF \E j \in 1..Len(r.entries) : r.entries[j].cand = c
                THEN r.entries[CHOOSE j \in 1..Len(r.entries) : r.entries[j].cand = c].mediaId
                ELSE 0]]

\* (a membership test that takes a cached None for a missing key)
IsCachedNonNull(key) == key \in DOMAIN search_cache /\ Truthy(search_cache[key])

\* `attempt in self.search_cache`, `cache_key in self.search_cache`,
\* `title in self.search_cache`: the test that precedes a network search
IsCached(key) == key \in DOMAIN search_cache

\* history: how the cache stood for one attempt
PreOf(key) ==
    IF key \notin DOMAIN search_cache THEN "miss"
    ELSE IF Truthy(search_cache[key]) THEN "hit"
    ELSE "null"

----------------------------------------------------------------------------
(* smart_convert_v2.py                                                      *)

InSeq(x, seq) == \E j \in 1..Len(seq) : seq[j] = x

\* get_best_english_title; ir and tr are what the IMDB page and the TMDB API
\* answer if asked.  calls: the lookups it sent.
get_best_english_title(anime, ir, tr) ==
    LET hasImdb == anime.imdb # NoId
        hasTmdb == anime.tmdb
        c1 == IF hasImdb THEN 1 ELSE 0
        c2 == IF hasTmdb THEN 1 ELSE 0
    IN  IF anime.title \in DOMAIN search_cache
            THEN [title |-> anime.title, calls |-> 0]
        ELSE IF IsEnglish(anime.title)
            THEN [title |-> anime.title, calls |-> 0]
        ELSE IF hasImdb /\ ir # NoTitle
            THEN [title |-> ir, calls |-> 1]
        ELSE IF hasTmdb /\ tr # NoTitle
            THEN [title |-> tr, calls |-> c1 + 1]
        ELSE [title |-> CleanTitle(anime.title), calls |-> c1 + c2]

\* (a list built without the tests `not in search_attempts`)
SearchAttemptsNoDedup(et, title) ==
    LET a2 == IF et # title THEN <<et, title>> ELSE <<et>>
        a3 == IF IndexFrom(title, DI, 1) > 0 THEN Append(a2, BaseTitle(title)) ELSE a2
    IN  Append(a3, StripParens(title))

\* (a list that holds the first attempt twice: the search retried)
SearchAttemptsRetryFirst(et, title) ==
    IF et # title THEN <<et, et, title>> ELSE <<et, et>>

\* the list search_attempts built from english_title and the original title
SearchAttempts(et, title) ==
    LET a1 == <<et>>
        a2 == IF et # title THEN Append(a1, title) ELSE a1
        base == BaseTitle(title)
        a3 == IF IndexFrom(title, DI, 1) > 0 /\ ~InSeq(base, a2)
              THEN Append(a2, base) ELSE a2
        clean_original == StripParens(title)
    IN  IF ~InSeq(clean_original, a3) THEN Append(a3, clean_original) ELSE a3

\* the loop that sets all_cached and has_null_cache, from attempt j on
RECURSIVE CacheScan(_, _, _)
CacheScan(sa, j, has_null) ==
    IF j > Len(sa) THEN [all_cached |-> TRUE, has_null_cache |-> has_null]
    ELSE IF sa[j] # <<>> /\ sa[j] \notin DOMAIN search_cache
        THEN [all_cached |-> FALSE, has_null_cache |-> has_null]
    ELSE IF sa[j] # <<>> /\ search_cache[sa[j]].none
        THEN CacheScan(sa, j + 1, TRUE)
    ELSE CacheScan(sa, j + 1, has_null)

\* index of the first attempt with a truthy cached value, from j on (0: none)
RECURSIVE FirstCachedHit(_, _)
FirstCachedHit(sa, j) ==
    IF j > Len(sa) THEN 0
    ELSE IF sa[j] # <<>> /\ sa[j] \in DOMAIN search_cache /\ Truthy(search_cache[sa[j]])
        THEN j
    ELSE FirstCachedHit(sa, j + 1)

NoCall ==
    [result |-> PyNone, cache |-> search_cache, file |-> disk, saved |-> FALSE,
     sleeps |-> <<>>]

\* (a client that treats a rate-limit answer like any other error)
Sleeps429Ignored(resp) ==
    IF Definitive(resp) /\ resp.media # <<>> THEN <<>> ELSE <<api_delay>>

\* the time.sleep calls of the two converters' search functions, in order: none
\* when a match is returned, api_delay * 2 and then api_delay after a 429,
\* api_delay after an empty result, another status or an exception
Sleeps(resp) ==
    IF Definitive(resp) /\ resp.media # <<>> THEN <<>>
    ELSE IF resp.kind = "http" /\ resp.code = 429 THEN <<api_delay * 2, api_delay>>
    ELSE <<api_delay>>

\* the time.sleep calls of IMDBToAniListMapper.search_anilist_by_title, which has
\* no branch for 429
Mapper_Sleeps(resp) ==
    IF Definitive(resp) /\ resp.media # <<>> THEN <<>> ELSE <<api_delay>>

\* (a search that stores a match but forgets to save the cache file)
SearchNoSave(title, resp) ==
    IF Definitive(resp)
    THEN LET value == IF resp.media # <<>> THEN Media(resp.media[1]) ELSE PyNone
         IN  [result |-> value, cache |-> Put(search_cache, title, value),
              file |-> disk, saved |-> TRUE, sleeps |-> Sleeps(resp)]
    ELSE [NoCall EXCEPT !.sleeps = Sleeps(resp)]

\* (a search that stores a no-match when the request ended in an error)
SearchTombstonesError(title, resp) ==
    LET value == IF Definitive(resp) /\ resp.media # <<>>
                 THEN Media(resp.media[1]) ELSE PyNone
        cache == Put(search_cache, title, value)
    IN  [result |-> value, cache |-> cache, file |-> JsonDump(cache),
         saved |-> TRUE, sleeps |-> Sleeps(resp)]

\* (a search that does not store an empty result)
SearchNoTombstone(title, resp) ==
    IF Definitive(resp) /\ resp.media # <<>>
    THEN LET cache == Put(search_cache, title, Media(resp.media[1]))
         IN  [result |-> Media(resp.media[1]), cache |-> cache,
              file |-> JsonDump(cache), saved |-> TRUE, sleeps |-> Sleeps(resp)]
    ELSE [NoCall EXCEPT !.sleeps = Sleeps(resp)]

\* search_anilist_by_title(title) under response resp: the value returned, the
\* cache and the cache file it leaves, the sleeps it made
search_anilist_by_title(title, resp) ==
    IF Definitive(resp)
    THEN LET value == IF resp.media # <<>> THEN Media(resp.media[1]) ELSE PyNone
             cache == Put(search_cache, title, value)
         IN  [result |-> value, cache |-> cache, file |-> JsonDump(cache),
              saved |-> TRUE, sleeps |-> Sleeps(resp)]
    ELSE [NoCall EXCEPT !.sleeps = Sleeps(resp)]

\* (an insertion at the head of the list)
ListInsertFirst(list, x) == <<x>> \o list

\* converted_list.append(x), failed_searches.append(x), failed_list.append(x)
ListAppend(list, x) == Append(list, x)

Entry(c, id, st) == [cand |-> c, mediaId |-> id, searchTitle |-> st]

Failed(c, st) == [cand |-> c, searchTitle |-> st]

\* history of a settled candidate: its index, the media id it resolved to (0: it was
\* recorded as failed), its search strings, how the cache stood for each when the
\* candidate began, the searches and title lookups sent for it, and how many of
\* the searches ended in an error (429, another status, an exception)
Row(c, id, sa, pre, n) ==
    [cand |-> c, mediaId |-> id, attempts |-> sa, pre |-> pre,
     searches |-> n.search, lookups |-> n.title, errors |-> n.errors]

NoRow == Row(0, 0, <<>>, <<>>, NoNet)

ResetLoop ==
    /\ english_title' = <<>>
    /\ search_attempts' = <<>>
    /\ k' = 0
    /\ cnet' = NoNet
    /\ cpre' = <<>>

\* one iteration of `for i, anime in enumerate(anime_list, 1)` up to the branch on
\* all_cached; the two cached branches settle the candidate at once
SmartBeginCandidate ==
    /\ prog = "smart"
    /\ pc = "next"
    /\ i <= Len(anime_list)
    /\ \E ir \in TitleResponses, tr \in TitleResponses :
        LET anime == anime_list[i]
            best == get_best_english_title(anime, ir, tr)
            sa == SearchAttempts(best.title, anime.title)
            scan == CacheScan(sa, 1, FALSE)
            hit == FirstCachedHit(sa, 1)
            pre == [j \in 1..Len(sa) |-> PreOf(sa[j])]
            calls == [search |-> 0, title |-> best.calls, errors |-> 0]
        IN  /\ IF scan.all_cached /\ scan.has_null_cache
               THEN \* known no-match: skipped, recorded as failed, `continue`
                    /\ skipped_count' = skipped_count + 1
                    /\ failed_searches' = ListAppend(failed_searches, Failed(i, best.title))
                    /\ converted_list' = converted_list
                    /\ last' = Row(i, 0, sa, pre, calls)
                    /\ i' = i + 1
                    /\ pc' = "next"
                    /\ UNCHANGED <<loopVars, cnet, cpre>>
               ELSE IF scan.all_cached
               THEN \* the cache loop appends and breaks; `if result:` appends again
                    /\ skipped_count' = skipped_count + 1
                    /\ IF hit > 0
                       THEN /\ converted_list' =
                                 ListAppend(ListAppend(converted_list,
                                     Entry(i, search_cache[sa[hit]].id, sa[hit])),
                                     Entry(i, search_cache[sa[hit]].id, best.title))
                            /\ failed_searches' = failed_searches
                       ELSE /\ converted_list' = converted_list
                            /\ failed_searches' =
                                 ListAppend(failed_searches, Failed(i, best.title))
                    /\ last' = Row(i, IF hit > 0 THEN search_cache[sa[hit]].id ELSE 0,
                                    sa, pre, calls)
                    /\ i' = i + 1
                    /\ pc' = "next"
                    /\ UNCHANGED <<loopVars, cnet, cpre>>
               ELSE \* the network fallback loop starts
                    /\ english_title' = best.title
                    /\ search_attempts' = sa
                    /\ k' = 1
                    /\ cnet' = calls
                    /\ cpre' = pre
                    /\ pc' = "search"
                    /\ UNCHANGED <<listVars, last, i>>
    /\ UNCHANGED <<progVars, recordVars, sideVars, clientVars, cacheVars, mapVars, report, prev, clean>>

\* one iteration of `for attempt in search_attempts` of the fallback loop; when
\* the loop ends (break or exhausted) the `if result: ... else: ...` that follows
SmartTryAttempt ==
    /\ prog = "smart"
    /\ pc = "search"
    /\ \E resp \in Responses :
        LET attempt == search_attempts[k]
            skip == attempt = <<>>
            cached == ~skip /\ IsCached(attempt)
            called == ~skip /\ ~cached
            out == IF called THEN search_anilist_by_title(attempt, resp)
                   ELSE IF cached
                   THEN [NoCall EXCEPT !.result = search_cache[attempt]]
                   ELSE NoCall
            result == out.result
            n == IF called THEN 1 ELSE 0
            e == IF called /\ ~Definitive(resp) THEN 1 ELSE 0
        IN  /\ search_cache' = out.cache
            /\ disk' = out.file
            /\ wrote' = (wrote \/ out.saved)
            /\ putLog' = IF out.saved THEN Put(putLog, attempt, result) ELSE putLog
            /\ hitSearched' = (hitSearched \/ (called /\ attempt \in DOMAIN search_cache))
            /\ clean' = (clean /\ (called => Definitive(resp)))
            /\ IF Truthy(result) \/ k = Len(search_attempts)
               THEN /\ IF Truthy(result)
                       THEN /\ converted_list' =
                                 ListAppend(converted_list, Entry(i, result.id, english_title))
                            /\ failed_searches' = failed_searches
                       ELSE /\ converted_list' = converted_list
                            /\ failed_searches' =
                                 ListAppend(failed_searches, Failed(i, english_title))
                    /\ last' = Row(i, IF Truthy(result) THEN result.id ELSE 0,
                                    search_attempts, cpre,
                                    [cnet EXCEPT !.search = @ + n, !.errors = @ + e])
                    /\ i' = i + 1
                    /\ pc' = "next"
                    /\ ResetLoop
               ELSE /\ k' = k + 1
                    /\ cnet' = [cnet EXCEPT !.search = @ + n, !.errors = @ + e]
                    /\ UNCHANGED <<converted_list, failed_searches, last, i, pc,
                                   english_title, search_attempts, cpre>>
    /\ UNCHANGED <<progVars, recordVars, sideVars, clientVars, mapVars, skipped_count, report, prev>>

\* result_data and json.dump(result_data, f) after the loop
SmartWriteReport ==
    /\ prog = "smart"
    /\ pc = "next"
    /\ i > Len(anime_list)
    /\ report' = [written |-> TRUE, entries |-> converted_list, failed |-> failed_searches,
                  total |-> Len(anime_list), successful |-> Len(converted_list),
                  failedCount |-> Len(failed_searches), skipped |-> skipped_count,
                  clean |-> clean]
    /\ pc' = "done"
    /\ UNCHANGED <<progVars, recordVars, sideVars, clientVars, cacheVars, mapVars, i, loopVars, listVars,
                   prev, cnet, cpre, last, clean>>

----------------------------------------------------------------------------
(* step2_map_to_anilist.py                                                  *)

TableEntry(imdb_id, anilist_id) == [imdb_id |-> imdb_id, anilist_id |-> anilist_id]

\* tables the mapping URL can serve: imdb_id with or without the prefix, fields
\* missing (<<>>, 0)
Tables ==
    { <<>>,
      <<TableEntry(tt1, 1)>>,
      <<TableEntry(<<"2">>, 2), TableEntry(tt1, 0)>> }

\* (a loader that leaves the id as the table gives it)
KeepTT(id) == id

\* imdb_id.replace('tt', '')
RECURSIVE ReplaceTT(_)
ReplaceTT(id) ==
    IF id = <<>> THEN <<>>
    ELSE IF Len(id) >= 2 /\ id[1] = "t" /\ id[2] = "t" THEN ReplaceTT(SubSeq(id, 3, Len(id)))
    ELSE <<Head(id)>> \o ReplaceTT(Tail(id))

\* the loop of load_id_mapping over the table, from entry j on
RECURSIVE MappingFrom(_, _, _)
MappingFrom(table, j, m) ==
    IF j > Len(table) THEN m
    ELSE LET e == table[j]
         IN  MappingFrom(table, j + 1,
                 IF e.imdb_id # <<>> /\ e.anilist_id # 0
                 THEN [x \in DOMAIN m \cup {<<"t", "t">> \o ReplaceTT(e.imdb_id)} |->
                          IF x = <<"t", "t">> \o ReplaceTT(e.imdb_id)
                          THEN e.anilist_id ELSE m[x]]
                 ELSE m)

EmptyMapping == [x \in {} |-> 0]

\* (a caller that goes on whatever load_id_mapping returned)
AfterLoadIgnored(ok) == "next"

\* `if not self.load_id_mapping(): ... return` at the head of convert_to_anilist
AfterLoad(ok) == IF ok THEN "next" ELSE "aborted"

\* load_id_mapping: the table is fetched (ok) or the download fails (another
\* status, or an exception), and the caller's test of what it returned
Mapper_load_id_mapping ==
    /\ prog = "step2"
    /\ pc = "mapping"
    /\ \E ok \in BOOLEAN :
        /\ id_mapping' = IF ok THEN MappingFrom(id_table, 1, id_mapping) ELSE id_mapping
        /\ mapping_loaded' = IF ok THEN "yes" ELSE "no"
        /\ pc' = AfterLoad(ok)
    /\ UNCHANGED <<progVars, recordVars, sideVars, clientVars, cacheVars, i, loopVars, listVars, report, prev,
                   cnet, cpre, last, clean>>

\* get_english_title_from_imdb: (title, year) or (None, None); a year of 0000
\* is the integer 0
NoYear == "None"

MapperTitleResponses ==
    { [title |-> NoTitle, year |-> NoYear],
      [title |-> <<"a">>, year |-> "2011"],
      [title |-> <<"a">>, year |-> "0000"] }

YearTruthy(year) == year # NoYear /\ year # "0000"

\* cache_key = f"{title}|{year}" if year else title
CacheKey(title, year) ==
    IF YearTruthy(year) THEN title \o <<"|", year>> ELSE title

\* (a search that takes the last element of the ranked list)
MapperSearchPicksLast(title, year, resp) ==
    LET cache_key == CacheKey(title, year)
    IN  IF IsCached(cache_key)
        THEN [result |-> search_cache[cache_key], cache |-> search_cache,
              file |-> disk, saved |-> FALSE, called |-> FALSE, sleeps |-> <<>>]
        ELSE IF Definitive(resp)
        THEN LET value == IF resp.media # <<>> THEN Media(resp.media[Len(resp.media)])
                          ELSE PyNone
                 cache == Put(search_cache, cache_key, value)
             IN  [result |-> value, cache |-> cache, file |-> JsonDump(cache),
                  saved |-> TRUE, called |-> TRUE, sleeps |-> Mapper_Sleeps(resp)]
        ELSE [result |-> PyNone, cache |-> search_cache, file |-> disk,
              saved |-> FALSE, called |-> TRUE, sleeps |-> Mapper_Sleeps(resp)]

\* IMDBToAniListMapper.search_anilist_by_title(title, year) under response resp
Mapper_search_anilist_by_title(title, year, resp) ==
    LET cache_key == CacheKey(title, year)
    IN  IF IsCached(cache_key)
        THEN [result |-> search_cache[cache_key], cache |-> search_cache,
              file |-> disk, saved |-> FALSE, called |-> FALSE, sleeps |-> <<>>]
        ELSE IF Definitive(resp)
        THEN LET value == IF resp.media # <<>> THEN Media(resp.media[1]) ELSE PyNone
                 cache == Put(search_cache, cache_key, value)
             IN  [result |-> value, cache |-> cache, file |-> JsonDump(cache),
                  saved |-> TRUE, called |-> TRUE, sleeps |-> Mapper_Sleeps(resp)]
        ELSE [result |-> PyNone, cache |-> search_cache, file |-> disk,
              saved |-> FALSE, called |-> TRUE, sleeps |-> Mapper_Sleeps(resp)]

\* self.id_mapping.get(imdb_id): 0 stands for None
MappingGetNone(imdb_id) == 0

MappingGet(imdb_id) ==
    IF imdb_id \in DOMAIN id_mapping THEN id_mapping[imdb_id] ELSE 0

\* one iteration of the loop of IMDBToAniListMapper.convert_to_anilist
MapperCandidate ==
    /\ prog = "step2"
    /\ pc = "next"
    /\ i <= Len(anime_list)
    /\ \E tr \in MapperTitleResponses, resp \in Responses :
        LET anime == anime_list[i]
            imdb_id == anime.imdb
            mapped == IF imdb_id = NoId THEN 0 ELSE MappingGet(imdb_id)
            lookup == imdb_id # NoId /\ mapped = 0
            searching == lookup /\ tr.title # NoTitle
            key == CacheKey(tr.title, tr.year)
            out == IF searching
                   THEN Mapper_search_anilist_by_title(tr.title, tr.year, resp)
                   ELSE [result |-> PyNone, cache |-> search_cache, file |-> disk,
                         saved |-> FALSE, called |-> FALSE, sleeps |-> <<>>]
            anilist_id == IF mapped # 0 THEN mapped
                          ELSE IF Truthy(out.result) THEN out.result.id
                          ELSE 0
            n1 == IF lookup THEN 1 ELSE 0
            n2 == IF out.called THEN 1 ELSE 0
            e == IF out.called /\ ~Definitive(resp) THEN 1 ELSE 0
            sa == IF searching THEN <<key>> ELSE <<>>
            pre == [j \in 1..Len(sa) |-> PreOf(sa[j])]
        IN  /\ search_cache' = out.cache
            /\ disk' = out.file
            /\ wrote' = (wrote \/ out.saved)
            /\ putLog' = IF out.saved THEN Put(putLog, key, out.result) ELSE putLog
            /\ hitSearched' = (hitSearched \/ (out.called /\ key \in DOMAIN search_cache))
            /\ clean' = (clean /\ (out.called => Definitive(resp)))
            /\ IF anilist_id # 0
               THEN /\ converted_list' = ListAppend(converted_list, Entry(i, anilist_id, NoTitle))
                    /\ failed_searches' = failed_searches
               ELSE /\ converted_list' = converted_list
                    /\ failed_searches' = ListAppend(failed_searches, Failed(i, NoTitle))
            /\ last' = Row(i, anilist_id, sa, pre, [search |-> n2, title |-> n1, errors |-> e])
            /\ i' = i + 1
    /\ UNCHANGED <<progVars, recordVars, sideVars, clientVars, mapVars, pc, loopVars, skipped_count, report,
                   prev, cnet, cpre>>

\* `output` and json.dump(output, f) after the loop
MapperWriteReport ==
    /\ prog = "step2"
    /\ pc = "next"
    /\ i > Len(anime_list)
    /\ report' = [written |-> TRUE, entries |-> converted_list, failed |-> failed_searches,
                  total |-> Len(anime_list), successful |-> Len(converted_list),
                  failedCount |-> Len(failed_searches), skipped |-> 0,
                  clean |-> clean]
    /\ pc' = "done"
    /\ UNCHANGED <<progVars, recordVars, sideVars, clientVars, cacheVars, mapVars, i, loopVars, listVars,
                   prev, cnet, cpre, last, clean>>

----------------------------------------------------------------------------
(* convert_manga_to_anilist.py                                              *)

\* (a manga search that does not store an empty result)
MangaSearchNoTombstone(title, resp) ==
    IF IsCached(title)
    THEN [result |-> search_cache[title], cache |-> search_cache,
          file |-> disk, saved |-> FALSE, called |-> FALSE, sleeps |-> <<>>]
    ELSE IF Definitive(resp) /\ resp.media # <<>>
    THEN LET cache == Put(search_cache, title, Media(resp.media[1]))
         IN  [result |-> Media(resp.media[1]), cache |-> cache, file |-> JsonDump(cache),
              saved |-> TRUE, called |-> TRUE, sleeps |-> Sleeps(resp)]
    ELSE [result |-> PyNone, cache |-> search_cache, file |-> disk,
          saved |-> FALSE, called |-> TRUE, sleeps |-> Sleeps(resp)]

\* search_anilist_manga(title) under response resp
search_anilist_manga(title, resp) ==
    IF IsCached(title)
    THEN [result |-> search_cache[title], cache |-> search_cache,
          file |-> disk, saved |-> FALSE, called |-> FALSE, sleeps |-> <<>>]
    ELSE IF Definitive(resp)
    THEN LET value == IF resp.media # <<>> THEN Media(resp.media[1]) ELSE PyNone
             cache == Put(search_cache, title, value)
         IN  [result |-> value, cache |-> cache, file |-> JsonDump(cache),
              saved |-> TRUE, called |-> TRUE, sleeps |-> Sleeps(resp)]
    ELSE [result |-> PyNone, cache |-> search_cache, file |-> disk,
          saved |-> FALSE, called |-> TRUE, sleeps |-> Sleeps(resp)]

\* one iteration of the loop of NeoDBToAniListMangaConverter.convert_to_anilist
MangaCandidate ==
    /\ prog = "manga"
    /\ pc = "next"
    /\ i <= Len(anime_list)
    /\ \E resp \in Responses :
        LET manga == anime_list[i]
            clean_title == StripParens(manga.title)
            out == search_anilist_manga(clean_title, resp)
            n == IF out.called THEN 1 ELSE 0
            e == IF out.called /\ ~Definitive(resp) THEN 1 ELSE 0
        IN  /\ search_cache' = out.cache
            /\ disk' = out.file
            /\ wrote' = (wrote \/ out.saved)
            /\ putLog' = IF out.saved THEN Put(putLog, clean_title, out.result) ELSE putLog
            /\ hitSearched' =
                 (hitSearched \/ (out.called /\ clean_title \in DOMAIN search_cache))
            /\ clean' = (clean /\ (out.called => Definitive(resp)))
            /\ IF Truthy(out.result)
               THEN /\ converted_list' =
                         ListAppend(converted_list, Entry(i, out.result.id, NoTitle))
                    /\ failed_searches' = failed_searches
               ELSE /\ converted_list' = converted_list
                    /\ failed_searches' = ListAppend(failed_searches, Failed(i, clean_title))
            /\ last' = Row(i, IF Truthy(out.result) THEN out.result.id ELSE 0,
                            <<clean_title>>, <<PreOf(clean_title)>>,
                            [search |-> n, title |-> 0, errors |-> e])
            /\ i' = i + 1
    /\ UNCHANGED <<progVars, recordVars, sideVars, clientVars, mapVars, pc, loopVars, skipped_count, report,
                   prev, cnet, cpre>>

\* `output` and json.dump(output, f) after the loop
MangaWriteReport ==
    /\ prog = "manga"
    /\ pc = "next"
    /\ i > Len(anime_list)
    /\ report' = [written |-> TRUE, entries |-> converted_list, failed |-> failed_searches,
                  total |-> Len(anime_list), successful |-> Len(converted_list),
                  failedCount |-> Len(failed_searches), skipped |-> 0,
                  clean |-> clean]
    /\ pc' = "done"
    /\ UNCHANGED <<progVars, recordVars, sideVars, clientVars, cacheVars, mapVars, i, loopVars, listVars,
                   prev, cnet, cpre, last, clean>>

----------------------------------------------------------------------------
(* The delays of the remote client, in tenths of a second.                  *)

\* SmartMALToAniListConverter.__init__(api_delay=6)
SmartDefaultDelay == 60

\* NeoDBToAniListMangaConverter(api_delay=1.5) in __main__
MangaMainDelay == 15

\* IMDBToAniListMapper.__init__: self.api_delay = 1.5
MapperDelay == 15

\* time.sleep(2.0) in the loops of import_to_anilist and import_manga_to_anilist
ImportDelay == 20

\* the delay each script runs with when started from its __main__
ConfiguredDelay(p) ==
    IF p = "smart" THEN SmartDefaultDelay
    ELSE IF p = "manga" THEN MangaMainDelay
    ELSE IF p = "step2" THEN MapperDelay
    ELSE ImportDelay

\* how a search request ended
Outcome(resp) ==
    IF resp.kind = "exception" THEN "exception"
    ELSE IF resp.code = 429 THEN "limited"
    ELSE IF resp.code # 200 THEN "status"
    ELSE IF resp.media # <<>> THEN "match"
    ELSE "empty"

\* history of one call of a search function: the cache key, how the request
\* ended, the ranked list the service answered with, the value returned, the
\* cache and the file before the call, the sleeps made, the requests sent and
\* the delay configured when it began
CallRecord(key, resp, out, requests) ==
    [key |-> key, outcome |-> IF requests = 0 THEN "cached" ELSE Outcome(resp),
     ranked |-> IF requests = 0 THEN <<>> ELSE resp.media,
     result |-> out.result, before |-> search_cache,
     fileBefore |-> disk, sleeps |-> out.sleeps, requests |-> requests,
     delay |-> api_delay]

NoCallRecord ==
    [key |-> <<>>, outcome |-> "none", ranked |-> <<>>, result |-> PyNone, before |-> EmptyCache,
     fileBefore |-> NoFile, sleeps |-> <<>>, requests |-> 0, delay |-> 0]

\* no client call and no import batch has been observed
IdleClient ==
    /\ call = NoCallRecord
    /\ waited = -1
    /\ gap = -1
    /\ entries = <<>>
    /\ success_count = 0
    /\ failed_count = 0
    /\ failed_entries = <<>>
    /\ submitted = 0

\* no CSV row has been read
NoRecord == [title |-> <<>>, info |-> <<>>, links |-> <<>>, status |-> "", rating |-> <<>>]

NoAnswer == [op |-> "none"]

EmptyImdbCache == [x \in {} |-> FALSE]

\* imdb_anime_cache.json does not exist
NoImdbFile == [exists |-> FALSE, content |-> EmptyImdbCache]

\* tmp/failed_entries.json does not exist
NoSideFile == [exists |-> FALSE, list |-> <<>>, writer |-> "none"]

\* no second process shares the cache file
NoPeer == [prog |-> "none", pc |-> "none", cache |-> EmptyCache]

IdleSide ==
    /\ failed_file = NoSideFile
    /\ still_failed = <<>>
    /\ neodb_metadata = <<>>
    /\ detailed = <<>>
    /\ sent = <<>>
    /\ validation = "none"
    /\ passes = 0
    /\ peer = NoPeer
    /\ deleted_count = 0

IdleRecord ==
    /\ row = NoRecord
    /\ imdb_anime_cache = EmptyImdbCache
    /\ answer = NoAnswer
    /\ verdicts = <<>>
    /\ imdb_cache_file = NoImdbFile

----------------------------------------------------------------------------
(* Processes.                                                               *)

\* the state __init__ leaves, given what the cache file holds
Construct(p, file) ==
    LET m == Manga_load_cache(file)
    IN  /\ search_cache' = IF p = "manga" THEN m.cache ELSE load_cache(file)
        /\ pc' = IF p = "manga" /\ m.raised THEN "crashed"
                 ELSE IF p = "step2" THEN "mapping"
                 ELSE "next"
        /\ id_mapping' = EmptyMapping
        /\ mapping_loaded' = "unknown"
        /\ i' = 1
        /\ converted_list' = <<>>
        /\ failed_searches' = <<>>
        /\ skipped_count' = 0
        /\ last' = NoRow
        /\ clean' = TRUE
        /\ wrote' = FALSE
        /\ ResetLoop

Init ==
    /\ prog \in Programs
    /\ anime_list \in Lists(Pool(prog), MaxCands)
    /\ id_table \in (IF prog = "step2" THEN Tables ELSE {<<>>})
    /\ disk = NoFile
    /\ search_cache = EmptyCache
    /\ pc = IF prog = "step2" THEN "mapping" ELSE "next"
    /\ id_mapping = EmptyMapping
    /\ mapping_loaded = "unknown"
    /\ i = 1
    /\ english_title = <<>>
    /\ search_attempts = <<>>
    /\ k = 0
    /\ converted_list = <<>>
    /\ failed_searches = <<>>
    /\ skipped_count = 0
    /\ report = NoReport
    /\ prev = Summary(NoReport)
    /\ cnet = NoNet
    /\ cpre = <<>>
    /\ last = NoRow
    /\ clean = TRUE
    /\ putLog = EmptyCache
    /\ wrote = FALSE
    /\ hitSearched = FALSE
    /\ api_delay = ConfiguredDelay(prog)
    /\ IdleClient
    /\ IdleRecord
    /\ IdleSide

\* the script is started again on the same input: a new process
StartRun ==
    /\ pc \in {"done", "aborted", "dead"}
    /\ Construct(prog, disk)
    /\ prev' = Summary(report)
    /\ report' = NoReport
    /\ UNCHANGED <<progVars, recordVars, sideVars, clientVars, disk, putLog, hitSearched>>

Next ==
    \/ SmartBeginCandidate
    \/ SmartTryAttempt
    \/ SmartWriteReport
    \/ Mapper_load_id_mapping
    \/ MapperCandidate
    \/ MapperWriteReport
    \/ MangaCandidate
    \/ MangaWriteReport
    \/ StartRun

Spec == Init /\ [][Next]_vars

----------------------------------------------------------------------------
(* Process termination.  save_cache opens the file with 'w', which truncates *)
(* it, and then writes the JSON text: a process killed in between leaves a   *)
(* file json.load rejects.                                                  *)

\* the keys the next step of the process may send to the search API
PendingSearchKeys ==
    IF prog = "smart" /\ pc = "search"
    THEN {search_attempts[k]} \ ({<<>>} \cup DOMAIN search_cache)
    ELSE IF prog = "manga" /\ pc = "next" /\ i <= Len(anime_list)
    THEN {StripParens(anime_list[i].title)} \ DOMAIN search_cache
    ELSE IF prog = "step2" /\ pc = "next" /\ i <= Len(anime_list)
            /\ anime_list[i].imdb # NoId /\ MappingGet(anime_list[i].imdb) = 0
    THEN {CacheKey(tr.title, tr.year) : tr \in {r \in MapperTitleResponses : r.title # NoTitle}}
            \ DOMAIN search_cache
    ELSE {}

\* the memory of a terminated process is gone; only the files stay
Terminated ==
    /\ pc' = "dead"
    /\ search_cache' = EmptyCache
    /\ id_mapping' = EmptyMapping
    /\ mapping_loaded' = "unknown"
    /\ i' = 1
    /\ converted_list' = <<>>
    /\ failed_searches' = <<>>
    /\ skipped_count' = 0
    /\ last' = NoRow
    /\ clean' = TRUE
    /\ wrote' = FALSE
    /\ ResetLoop
    /\ UNCHANGED <<progVars, recordVars, sideVars, clientVars, putLog, hitSearched, report, prev>>

\* the process is terminated between two writes of the cache file
Kill ==
    /\ pc \in {"mapping", "next", "search"}
    /\ disk' = disk
    /\ Terminated

\* the process is terminated inside save_cache, after a search answered 200
KillInSave ==
    /\ pc \in {"next", "search"}
    /\ PendingSearchKeys # {}
    /\ disk' = TornFile
    /\ Terminated

NextKill == Next \/ Kill \/ KillInSave

SpecKill == Init /\ [][NextKill]_vars

----------------------------------------------------------------------------
(* The remote client on its own: the search functions called with any key   *)
(* and any answer, and the batch of mutations of the import scripts.        *)

ImportPrograms == {"import", "import_manga"}

\* longest list of entries of an import batch
MaxEntries == 2

\* data['anilistImport']['lists'][0]['entries'], an entry reduced to its mediaId
EntryLists == UNION { [1..m -> MediaIds] : m \in 1..MaxEntries }

\* titles handed to the search functions
ClientTitles == { <<"a">>, <<KA>> }

\* api_delay values the converters are constructed with
ApiDelays == {MangaMainDelay, SmartDefaultDelay}

RECURSIVE SumSeq(_)
SumSeq(seq) == IF seq = <<>> THEN 0 ELSE Head(seq) + SumSeq(Tail(seq))

\* a request goes out: the time slept since the request before it is noted
RequestSent(sleeps) ==
    /\ gap' = waited
    /\ waited' = SumSeq(sleeps)

InitClient ==
    /\ prog \in Programs \cup ImportPrograms
    /\ anime_list = <<>>
    /\ id_table = <<>>
    /\ disk = NoFile
    /\ search_cache = EmptyCache
    /\ pc = IF prog \in Programs THEN "client" ELSE "validate"
    /\ id_mapping = EmptyMapping
    /\ mapping_loaded = "unknown"
    /\ i = 1
    /\ english_title = <<>>
    /\ search_attempts = <<>>
    /\ k = 0
    /\ converted_list = <<>>
    /\ failed_searches = <<>>
    /\ skipped_count = 0
    /\ report = NoReport
    /\ prev = Summary(NoReport)
    /\ cnet = NoNet
    /\ cpre = <<>>
    /\ last = NoRow
    /\ clean = TRUE
    /\ putLog = EmptyCache
    /\ wrote = FALSE
    /\ hitSearched = FALSE
    /\ api_delay \in (IF prog \in {"smart", "manga"} THEN ApiDelays
                      ELSE {ConfiguredDelay(prog)})
    /\ call = NoCallRecord
    /\ waited = -1
    /\ gap = -1
    /\ entries \in (IF prog \in ImportPrograms THEN EntryLists ELSE {<<>>})
    /\ success_count = 0
    /\ failed_count = 0
    /\ failed_entries = <<>>
    /\ submitted = 0
    /\ IdleRecord
    /\ IdleSide

driverVars ==
    <<progVars, recordVars, sideVars, mapVars, pc, i, loopVars, listVars, report, prev, cnet,
      cpre, last, clean, putLog, wrote, hitSearched>>

batchVars == <<entries, success_count, failed_count, failed_entries, submitted>>

\* SmartMALToAniListConverter.search_anilist_by_title, called as the fallback
\* loop calls it: for a key that is not in the cache
ClientSearchSmart ==
    /\ prog = "smart"
    /\ pc = "client"
    /\ \E title \in ClientTitles, resp \in Responses :
        /\ ~IsCached(title)
        /\ LET out == search_anilist_by_title(title, resp)
           IN  /\ search_cache' = out.cache
               /\ disk' = out.file
               /\ call' = CallRecord(title, resp, out, 1)
               /\ RequestSent(out.sleeps)
    /\ UNCHANGED <<driverVars, batchVars, api_delay>>

\* IMDBToAniListMapper.search_anilist_by_title with any title and year
ClientSearchMapper ==
    /\ prog = "step2"
    /\ pc = "client"
    /\ \E tr \in MapperTitleResponses, resp \in Responses :
        /\ tr.title # NoTitle
        /\ LET out == Mapper_search_anilist_by_title(tr.title, tr.year, resp)
               key == CacheKey(tr.title, tr.year)
           IN  /\ search_cache' = out.cache
               /\ disk' = out.file
               /\ IF out.called
                  THEN /\ call' = CallRecord(key, resp, out, 1)
                       /\ RequestSent(out.sleeps)
                  ELSE /\ call' = CallRecord(key, resp, out, 0)
                       /\ UNCHANGED <<waited, gap>>
    /\ UNCHANGED <<driverVars, batchVars, api_delay>>

\* NeoDBToAniListMangaConverter.search_anilist_manga with any title
ClientSearchManga ==
    /\ prog = "manga"
    /\ pc = "client"
    /\ \E title \in ClientTitles, resp \in Responses :
        LET out == search_anilist_manga(title, resp)
        IN  /\ search_cache' = out.cache
            /\ disk' = out.file
            /\ IF out.called
               THEN /\ call' = CallRecord(title, resp, out, 1)
                    /\ RequestSent(out.sleeps)
               ELSE /\ call' = CallRecord(title, resp, out, 0)
                    /\ UNCHANGED <<waited, gap>>
    /\ UNCHANGED <<driverVars, batchVars, api_delay>>

\* answers to one mutation: status 200; another status with a JSON body, without
\* or with a 'Too Many Requests' error; another status with a body json() rejects;
\* an exception raised by requests.post
MutationResponses == {"ok", "rejected", "limited", "garbled", "exception"}

\* a loop body that queues only the entries rejected for another reason
ImportOutcomeQueueRejected(r) ==
    [success |-> IF r = "ok" THEN 1 ELSE 0,
     failed  |-> IF r = "ok" THEN 0 ELSE IF r = "garbled" THEN 2 ELSE 1,
     queued  |-> r = "rejected",
     sleeps  |-> IF r \in {"ok", "rejected", "limited"} THEN <<ImportDelay>> ELSE <<>>]

\* the try/except of the loop body under answer r: what is added to success_count
\* and to failed_count, whether the entry is appended to failed_entries, and the
\* time slept.  After a status other than 200 failed_count is incremented before
\* response.json() is called; if that call raises, the except clause increments
\* it again; the except clause does not sleep.
ImportOutcome(r) ==
    [success |-> IF r = "ok" THEN 1 ELSE 0,
     failed  |-> IF r = "ok" THEN 0 ELSE IF r = "garbled" THEN 2 ELSE 1,
     queued  |-> r \in {"limited", "garbled", "exception"},
     sleeps  |-> IF r \in {"ok", "rejected", "limited"} THEN <<ImportDelay>> ELSE <<>>]

\* index of the first " / " of t from index n on (0: none)
RECURSIVE SeparatorFrom(_, _)
SeparatorFrom(t, n) ==
    IF n + 2 > Len(t) THEN 0
    ELSE IF t[n] = SP /\ t[n + 1] = SL /\ t[n + 2] = SP THEN n
    ELSE SeparatorFrom(t, n + 1)

\* title.split(' / ')
RECURSIVE Split(_)
Split(t) ==
    LET p == SeparatorFrom(t, 1)
    IN  IF p = 0 THEN <<t>>
        ELSE <<SubSeq(t, 1, p - 1)>> \o Split(SubSeq(t, p + 3, Len(t)))

\* answers to the token validation query: status 200 with the viewer; another
\* status; status 200 with an 'errors' member; status 200 with a body json()
\* rejects; an exception raised by requests.post
ValidationResponses == {"ok", "status", "errors", "garbled", "exception"}

\* a validation that looks at the status only
TokenValidatedByStatus(v) == v \in {"ok", "errors", "garbled"}

\* the try/except around the validation request: TRUE when the function goes on
TokenValidated(v) == v = "ok"

\* a row of the CSV file as load_neodb_metadata keeps it; comment, timestamp and
\* rating say whether the field is non-empty, and a value is known by its row
Meta(title, comment, timestamp, rating) ==
    [title |-> title, comment |-> comment, timestamp |-> timestamp, rating |-> rating]

\* index of the row neodb_metadata holds under title (0: title is no key)
MetaIndex(title) ==
    IF \E n \in 1..Len(neodb_metadata) : neodb_metadata[n].title = title
    THEN CHOOSE n \in 1..Len(neodb_metadata) : neodb_metadata[n].title = title
    ELSE 0

\* notes, completedAt and the fallback rating of a mutation, each the title of
\* the CSV row it was taken from, or <<>>: notes "", completedAt None, the
\* entry's own score
NoVariables == [notes |-> <<>>, completedAt |-> <<>>, rating |-> <<>>]

VariablesFrom(meta, scored) ==
    [notes |-> IF meta.comment THEN meta.title ELSE <<>>,
     completedAt |-> IF meta.timestamp THEN meta.title ELSE <<>>,
     rating |-> IF meta.rating /\ ~scored THEN meta.title ELSE <<>>]

\* entry.get('score', 0) is truthy
Scored(media_id) ==
    \E n \in 1..Len(detailed) : detailed[n].mediaId = media_id /\ detailed[n].scored

\* the first detail of detailedResults.successful with the mediaId (0: none)
DetailIndex(media_id) ==
    IF \E n \in 1..Len(detailed) : detailed[n].mediaId = media_id
    THEN CHOOSE n \in 1..Len(detailed) :
            /\ detailed[n].mediaId = media_id
            /\ \A m \in 1..(n - 1) : detailed[m].mediaId # media_id
    ELSE 0

\* expanded_titles: the title, and its segments when it holds ' / '
ExpandedTitles(title) ==
    IF title = <<>> THEN <<>>
    ELSE IF SeparatorFrom(title, 1) # 0 THEN <<title>> \o Split(title)
    ELSE <<title>>

\* import_to_anilist and retry_failed_imports: the metadata of the first expanded
\* title of the entry's detail that is a key of neodb_metadata
ImportVariables(media_id) ==
    LET d == DetailIndex(media_id)
        titles == IF d = 0 THEN <<>> ELSE ExpandedTitles(detailed[d].originalTitle)
        hits == {n \in 1..Len(titles) :
                    Strip(titles[n]) # <<>> /\ MetaIndex(Strip(titles[n])) # 0}
    IN  IF hits = {} THEN NoVariables
        ELSE LET n == CHOOSE h \in hits : \A g \in hits : h <= g
             IN  VariablesFrom(neodb_metadata[MetaIndex(Strip(titles[n]))],
                               Scored(media_id))

\* import_manga_to_anilist: `for title, meta in neodb_metadata.items(): ... break`
MangaImportVariables(media_id) ==
    IF neodb_metadata = <<>> THEN NoVariables
    ELSE VariablesFrom(neodb_metadata[1], Scored(media_id))

\* history of one mutation: the position of the entry, the answer, the variables
Mutation(pos, r, variables) == [pos |-> pos, r |-> r, variables |-> variables]

\* `if failed_entries:` json.dump(failed_entries) into the side file
SaveFailedEntries(list, file, writer) ==
    IF list # <<>> THEN [exists |-> TRUE, list |-> list, writer |-> writer] ELSE file

\* what the import batch leaves alone
batchRest ==
    <<progVars, recordVars, mapVars, loopVars, listVars, report, prev, cnet, cpre, last,
      clean, cacheVars, api_delay, call, still_failed, neodb_metadata, detailed, passes,
      peer, deleted_count>>

\* the token validation request that precedes the batch
ImportValidateToken ==
    /\ prog \in ImportPrograms
    /\ pc = "validate"
    /\ \E v \in ValidationResponses :
        /\ pc' = IF TokenValidated(v) THEN "batch" ELSE "aborted"
        /\ validation' = v
    /\ RequestSent(<<>>)
    /\ UNCHANGED <<batchRest, i, batchVars, failed_file, sent>>

\* one iteration of `for entry in entries`
ImportEntry ==
    /\ prog \in ImportPrograms
    /\ pc = "batch"
    /\ i <= Len(entries)
    /\ \E r \in MutationResponses :
        LET out == ImportOutcome(r)
            variables == IF prog = "import_manga" THEN MangaImportVariables(entries[i])
                         ELSE ImportVariables(entries[i])
        IN  /\ success_count' = success_count + out.success
            /\ failed_count' = failed_count + out.failed
            /\ failed_entries' = IF out.queued THEN ListAppend(failed_entries, entries[i])
                                 ELSE failed_entries
            /\ sent' = Append(sent, Mutation(i, r, variables))
            /\ RequestSent(out.sleeps)
    /\ submitted' = submitted + 1
    /\ i' = i + 1
    /\ UNCHANGED <<batchRest, pc, entries, failed_file, validation>>

\* the loop has ended: failed_entries is saved and the counts are printed
ImportFinish ==
    /\ prog \in ImportPrograms
    /\ pc = "batch"
    /\ i > Len(entries)
    /\ pc' = "finished"
    /\ failed_file' = SaveFailedEntries(failed_entries, failed_file, prog)
    /\ UNCHANGED <<batchRest, i, batchVars, waited, gap, sent, validation>>

NextClient ==
    \/ ClientSearchSmart
    \/ ClientSearchMapper
    \/ ClientSearchManga
    \/ ImportValidateToken
    \/ ImportEntry
    \/ ImportFinish

SpecClient == InitClient /\ [][NextClient]_vars

----------------------------------------------------------------------------
(* Records.  A row of a NeoDB CSV file has a title, an info string, a      *)
(* links string, a status and a rating.  The info string is a sequence of  *)
(* fields `key:value`, the links string a sequence of URLs                 *)
(* `host/path/id`; a value, an id and a rating are sequences of            *)
(* characters.                                                             *)

Field(key, val) == [key |-> key, val |-> val]

Link(host, path, id) == [host |-> host, path |-> path, id |-> id]

\* the class \d over the characters of the model
Digits == {"0", "1", "2", "9"}

\* [\u3040-\u309F\u30A0-\u30FF]: hiragana and katakana
Kana == {KA}

\* [\u4e00-\u9fff]: the unified ideographs
Han == {DI, KI}

HasCharIn(t, S) == \E j \in 1..Len(t) : t[j] \in S

\* str.lower()
Lower(t) ==
    [j \in 1..Len(t) |->
        IF t[j] = KwMangaUpper THEN KwManga ELSE IF t[j] = "Q" THEN "q" ELSE t[j]]

\* the digits t holds from index i on, up to the first other character: (\d+)
RECURSIVE DigitRun(_, _)
DigitRun(t, n) ==
    IF n <= Len(t) /\ t[n] \in Digits THEN <<t[n]>> \o DigitRun(t, n + 1) ELSE <<>>

\* re.search(r'imdb:(tt\d+)', info), from field j on: group(1), or <<>> for no match
RECURSIVE ImdbProbe(_, _)
ImdbProbe(info, j) ==
    IF j > Len(info) THEN <<>>
    ELSE LET f == info[j]
             d == DigitRun(f.val, 3)
         IN  IF f.key = "imdb" /\ Len(f.val) >= 3 /\ f.val[1] = "t" /\ f.val[2] = "t"
                /\ d # <<>>
             THEN <<"t", "t">> \o d
             ELSE ImdbProbe(info, j + 1)

\* re.search(r'year:(\d{4})', info), from field j on
RECURSIVE YearProbe(_, _)
YearProbe(info, j) ==
    IF j > Len(info) THEN <<>>
    ELSE LET f == info[j]
         IN  IF f.key = "year" /\ Len(DigitRun(f.val, 1)) >= 4
             THEN SubSeq(f.val, 1, 4)
             ELSE YearProbe(info, j + 1)

\* re.search(host/path/(\d+), links), from URL j on
RECURSIVE LinkProbe(_, _, _, _)
LinkProbe(links, host, path, j) ==
    IF j > Len(links) THEN <<>>
    ELSE LET u == links[j]
         IN  IF u.host = host /\ u.path = path /\ DigitRun(u.id, 1) # <<>>
             THEN DigitRun(u.id, 1)
             ELSE LinkProbe(links, host, path, j + 1)

\* ids = {}
NoIds == [ns \in {} |-> <<>>]

\* ids[ns] = v
SetKey(ids, ns, v) == [x \in DOMAIN ids \cup {ns} |-> IF x = ns THEN v ELSE ids[x]]

\* (an extractor that looks for the year only when it found an IMDB id)
ExtractInfoYearAfterImdb(info_str) ==
    LET imdb_match == ImdbProbe(info_str, 1)
        year_match == YearProbe(info_str, 1)
    IN  IF imdb_match = <<>> THEN NoIds
        ELSE IF year_match = <<>> THEN SetKey(NoIds, "imdb", imdb_match)
        ELSE SetKey(SetKey(NoIds, "imdb", imdb_match), "year", year_match)

\* extract_ids_from_info of SmartMALToAniListConverter and of AnimeFilter
extract_ids_from_info(info_str) ==
    LET imdb_match == ImdbProbe(info_str, 1)
        ids1 == IF imdb_match # <<>> THEN SetKey(NoIds, "imdb", imdb_match) ELSE NoIds
        year_match == YearProbe(info_str, 1)
    IN  IF year_match # <<>> THEN SetKey(ids1, "year", year_match) ELSE ids1

\* extract_ids_from_links of SmartMALToAniListConverter and of AnimeFilter
extract_ids_from_links(links_str) ==
    LET bgm_match == LinkProbe(links_str, "bgm.tv", "subject", 1)
        ids1 == IF bgm_match # <<>> THEN SetKey(NoIds, "bgm", bgm_match) ELSE NoIds
        douban_match == LinkProbe(links_str, "movie.douban.com", "subject", 1)
        ids2 == IF douban_match # <<>> THEN SetKey(ids1, "douban", douban_match) ELSE ids1
        tmdb_match == LinkProbe(links_str, "themoviedb.org", "tv", 1)
    IN  IF tmdb_match # <<>> THEN SetKey(ids2, "tmdb", tmdb_match) ELSE ids2

\* {**info_ids, **link_ids}: the right operand wins on a common key
MergeIds(a, b) ==
    [x \in DOMAIN a \cup DOMAIN b |-> IF x \in DOMAIN b THEN b[x] ELSE a[x]]

\* 'external_ids' of a candidate
ExternalIds(info, links) ==
    MergeIds(extract_ids_from_info(info), extract_ids_from_links(links))

\* 'bgm.tv' in links
HasMarker(links) == \E j \in 1..Len(links) : links[j].host = "bgm.tv"

\* the part of a field value the pattern [^,]* can cross: up to the first comma
UpToComma(val) ==
    LET p == IndexFrom(val, CM, 1)
    IN  IF p = 0 THEN val ELSE SubSeq(val, 1, p - 1)

\* manga_keywords, over the characters of the model
MangaKeywords == {KwManga}

\* (a classifier that looks for the ideographs in the title as it does in the author)
IsLikelyMangaHanTitle(title, info, links) ==
    \/ HasMarker(links)
    \/ HasCharIn(Lower(title), MangaKeywords)
    \/ /\ \E j \in 1..Len(info) :
             info[j].key = "author" /\ HasCharIn(UpToComma(info[j].val), Kana \cup Han)
       /\ HasCharIn(title, Kana \cup Han)

\* NeoDBToAniListMangaConverter.is_likely_manga
is_likely_manga(title, info, links) ==
    IF HasMarker(links) THEN TRUE
    ELSE IF HasCharIn(Lower(title), MangaKeywords) THEN TRUE
    ELSE IF \E j \in 1..Len(info) : info[j].key = "author"
    THEN LET has_japanese_author ==
                 \E j \in 1..Len(info) :
                     /\ info[j].key = "author"
                     /\ HasCharIn(UpToComma(info[j].val), Kana \cup Han)
             has_japanese_title == HasCharIn(title, Kana)
         IN  has_japanese_author /\ has_japanese_title
    ELSE FALSE

\* anime_keywords, over the characters of the model
AnimeKeywords == {KwAnime}

\* re.search(r'.*DI\d+KI', title), the one of anime_patterns the alphabet can spell
SeasonPattern(title) ==
    \E j \in 1..Len(title) :
        /\ title[j] = DI
        /\ DigitRun(title, j + 1) # <<>>
        /\ \E n \in 1..Len(DigitRun(title, j + 1)) :
              j + n + 1 <= Len(title) /\ title[j + n + 1] = KI

\* SmartMALToAniListConverter.is_likely_anime
is_likely_anime(title, info, links) ==
    IF HasMarker(links) THEN TRUE
    ELSE IF HasCharIn(Lower(title), AnimeKeywords) THEN TRUE
    ELSE IF HasCharIn(title, Kana) THEN TRUE
    ELSE SeasonPattern(title)

\* what the IMDB page request of check_imdb_for_anime ends in: a page with or
\* without the word 'Animation', another status, an exception
ImdbPages == {"animation", "other", "notfound", "exception"}

\* imdb_anime_cache with imdb_id set to result
ImdbCachePut(imdb_id, result) ==
    [x \in DOMAIN imdb_anime_cache \cup {imdb_id} |->
        IF x = imdb_id THEN result ELSE imdb_anime_cache[x]]

\* save_imdb_cache: json.dump of the whole cache
ImdbFile(cache) == [exists |-> TRUE, content |-> cache]

\* check_imdb_for_anime storing False for a fetch that failed
CheckImdbCachingFailures(imdb_id, page) ==
    IF imdb_id \in DOMAIN imdb_anime_cache
    THEN [result |-> imdb_anime_cache[imdb_id], cache |-> imdb_anime_cache,
          file |-> imdb_cache_file, called |-> FALSE]
    ELSE [result |-> page = "animation",
          cache |-> ImdbCachePut(imdb_id, page = "animation"),
          file |-> ImdbFile(ImdbCachePut(imdb_id, page = "animation")),
          called |-> TRUE]

\* AnimeFilter.check_imdb_for_anime(imdb_id) when the request ends in page
check_imdb_for_anime(imdb_id, page) ==
    IF imdb_id \in DOMAIN imdb_anime_cache
    THEN [result |-> imdb_anime_cache[imdb_id], cache |-> imdb_anime_cache,
          file |-> imdb_cache_file, called |-> FALSE]
    ELSE IF page \in {"animation", "other"}
    THEN [result |-> page = "animation",
          cache |-> ImdbCachePut(imdb_id, page = "animation"),
          file |-> ImdbFile(ImdbCachePut(imdb_id, page = "animation")),
          called |-> TRUE]
    ELSE [result |-> FALSE, cache |-> imdb_anime_cache, file |-> imdb_cache_file,
          called |-> TRUE]

\* AnimeFilter.is_likely_anime
Filter_is_likely_anime(title, info, links, page) ==
    LET imdb_id == ImdbProbe(info, 1)
    IN  IF imdb_id # <<>> THEN check_imdb_for_anime(imdb_id, page)
        ELSE [result |-> FALSE, cache |-> imdb_anime_cache, file |-> imdb_cache_file,
              called |-> FALSE]

status_map ==
    [s \in {"complete", "progress", "wishlist", "dropped"} |->
        IF s = "complete" THEN "COMPLETED"
        ELSE IF s = "progress" THEN "CURRENT"
        ELSE IF s = "wishlist" THEN "PLANNING"
        ELSE "DROPPED"]

\* (a conversion that takes an unknown status for a completed one)
ConvertStatusDefaultCompleted(status) ==
    IF status \in DOMAIN status_map THEN status_map[status] ELSE "COMPLETED"

\* convert_status: status_map.get(status, 'PLANNING')
convert_status(status) ==
    IF status \in DOMAIN status_map THEN status_map[status] ELSE "PLANNING"

\* the score None
NoScore == -1

DigitValue(c) ==
    IF c = "0" THEN 0 ELSE IF c = "1" THEN 1 ELSE IF c = "2" THEN 2 ELSE 9

\* int(rating) of a digit string
RECURSIVE IntOf(_)
IntOf(t) ==
    IF t = <<>> THEN 0
    ELSE 10 * IntOf(SubSeq(t, 1, Len(t) - 1)) + DigitValue(t[Len(t)])

\* int(rating) if rating and rating.isdigit() else None
Score(rating) ==
    IF rating # <<>> /\ (\A j \in 1..Len(rating) : rating[j] \in Digits)
    THEN IntOf(rating) ELSE NoScore

\* anime_data of parse_csv_file, manga_data of parse_neodb_books (which has no
\* external_ids)
Candidate(r, ids) ==
    [title |-> r.title, status |-> convert_status(r.status), score |-> Score(r.rating),
     progress |-> 0, external_ids |-> ids]

----------------------------------------------------------------------------
(* The record functions on their own: one CSV row, classified, parsed,     *)
(* probed for ids and expanded into search strings.                        *)

RecordPrograms == {"smart", "manga", "step1"}

\* most classifier calls observed on one row
MaxCalls == 2

RecordTitles ==
    { <<"a">>,
      <<"a", SP, LP, "2", RP>>,
      <<KA, SP, LP, "2", RP>>,
      <<KA, DI, "2", KI>>,
      <<"a", SP, SL, SP, KA>>,
      <<KA>>,
      <<KI>>,
      <<KwMangaUpper>>,
      <<KwAnime>> }

RecordInfos ==
    { <<>>,
      <<Field("imdb", tt1), Field("year", <<"2", "0", "1", "1">>)>>,
      <<Field("year", <<"2", "0", "1", "1">>), Field("imdb", <<"1">>)>>,
      <<Field("year", <<"2", "0", "1">>), Field("imdb", tt1)>>,
      <<Field("author", <<KI>>)>>,
      <<Field("author", <<"a", CM, KA>>)>> }

RecordLinks ==
    { <<>>,
      <<Link("bgm.tv", "subject", <<"1">>)>>,
      <<Link("bgm.tv", "character", <<"1">>)>>,
      <<Link("movie.douban.com", "subject", <<"2">>), Link("themoviedb.org", "tv", <<"1">>)>>,
      <<Link("themoviedb.org", "movie", <<"1">>)>> }

\* status and rating of a row
Mark(status, rating) == [status |-> status, rating |-> rating]

RecordMarks ==
    { Mark("complete", <<"9">>),
      Mark("progress", <<>>),
      Mark("wishlist", <<"1", "0">>),
      Mark("dropped", <<"9", ".", "2">>),
      Mark("onhold", <<"0">>),
      Mark("", <<"2">>) }

Rows ==
    { [title |-> t, info |-> n, links |-> l, status |-> m.status, rating |-> m.rating] :
        t \in RecordTitles, n \in RecordInfos, l \in RecordLinks, m \in RecordMarks }

\* AnimeFilter.load_imdb_cache
load_imdb_cache(file) == IF file.exists THEN file.content ELSE EmptyImdbCache

\* imdb_anime_cache.json when the filter starts: absent, or left by an earlier run
ImdbFiles == {NoImdbFile, ImdbFile([x \in {tt1} |-> FALSE])}

InitRecord ==
    /\ prog \in RecordPrograms
    /\ row \in Rows
    /\ imdb_cache_file \in (IF prog = "step1" THEN ImdbFiles ELSE {NoImdbFile})
    /\ imdb_anime_cache = load_imdb_cache(imdb_cache_file)
    /\ answer = NoAnswer
    /\ verdicts = <<>>
    /\ anime_list = <<>>
    /\ id_table = <<>>
    /\ disk = NoFile
    /\ search_cache = EmptyCache
    /\ pc = "record"
    /\ id_mapping = EmptyMapping
    /\ mapping_loaded = "unknown"
    /\ i = 1
    /\ english_title = <<>>
    /\ search_attempts = <<>>
    /\ k = 0
    /\ converted_list = <<>>
    /\ failed_searches = <<>>
    /\ skipped_count = 0
    /\ report = NoReport
    /\ prev = Summary(NoReport)
    /\ cnet = NoNet
    /\ cpre = <<>>
    /\ last = NoRow
    /\ clean = TRUE
    /\ putLog = EmptyCache
    /\ wrote = FALSE
    /\ hitSearched = FALSE
    /\ api_delay = ConfiguredDelay(prog)
    /\ IdleClient
    /\ IdleSide

\* everything but the row and what the record functions made of it
restVars ==
    <<prog, anime_list, id_table, mapVars, pc, i, loopVars, listVars, report, prev,
      cnet, cpre, last, clean, cacheVars, clientVars, sideVars>>

\* is_likely_manga / is_likely_anime called on the row
Classify ==
    /\ pc = "record"
    /\ Len(verdicts) < MaxCalls
    /\ \E page \in ImdbPages :
        LET out == IF prog = "step1"
                   THEN Filter_is_likely_anime(row.title, row.info, row.links, page)
                   ELSE [result |-> IF prog = "manga"
                                    THEN is_likely_manga(row.title, row.info, row.links)
                                    ELSE is_likely_anime(row.title, row.info, row.links),
                         cache |-> imdb_anime_cache, file |-> imdb_cache_file,
                         called |-> FALSE]
        IN  /\ verdicts' = Append(verdicts, out.result)
            /\ imdb_anime_cache' = out.cache
            /\ imdb_cache_file' = out.file
            /\ answer' = [op |-> "classify", verdict |-> out.result,
                          mutated |-> out.cache # imdb_anime_cache,
                          requested |-> out.called,
                          page |-> IF out.called THEN page ELSE "none",
                          cached |-> prog = "step1"
                                        /\ ImdbProbe(row.info, 1) \in DOMAIN imdb_anime_cache]
    /\ UNCHANGED <<restVars, row>>

\* the body of the loop over the rows in parse_csv_file and parse_neodb_books
ParseRow ==
    /\ pc = "record"
    /\ prog \in {"smart", "manga"}
    /\ LET passed == IF prog = "manga"
                     THEN is_likely_manga(row.title, row.info, row.links)
                     ELSE is_likely_anime(row.title, row.info, row.links)
           ids == IF prog = "manga" THEN NoIds ELSE ExternalIds(row.info, row.links)
       IN  answer' = [op |-> "parse", passed |-> passed, candidate |-> Candidate(row, ids)]
    /\ UNCHANGED <<restVars, row, imdb_anime_cache, verdicts, imdb_cache_file>>

\* extract_ids_from_info and extract_ids_from_links called on the row, and merged
ExtractIds ==
    /\ pc = "record"
    /\ prog \in {"smart", "step1"}
    /\ answer' = [op |-> "extract", ids |-> ExternalIds(row.info, row.links)]
    /\ UNCHANGED <<restVars, row, imdb_anime_cache, verdicts, imdb_cache_file>>

\* the head of the loop body of SmartMALToAniListConverter.convert_to_anilist:
\* get_best_english_title and the list search_attempts
ExpandTitles ==
    /\ pc = "record"
    /\ prog = "smart"
    /\ \E ir \in TitleResponses, tr \in TitleResponses :
        LET ids == ExternalIds(row.info, row.links)
            anime == Cand(row.title,
                          IF "imdb" \in DOMAIN ids THEN ids["imdb"] ELSE NoId,
                          "tmdb" \in DOMAIN ids)
            best == get_best_english_title(anime, ir, tr)
        IN  answer' = [op |-> "expand", english_title |-> best.title,
                       attempts |-> SearchAttempts(best.title, row.title)]
    /\ UNCHANGED <<restVars, row, imdb_anime_cache, verdicts, imdb_cache_file>>

NextRecord ==
    \/ Classify
    \/ ParseRow
    \/ ExtractIds
    \/ ExpandTitles

SpecRecord == InitRecord /\ [][NextRecord]_vars

----------------------------------------------------------------------------
(* Properties.  `last` is the candidate settled last by the running process; *)
(* `prev` summarises the report of the process before it, which ran over the *)
(* same candidate list and left its cache file to this one.                  *)

Settled == last.cand > 0

AllNull(pre) == pre # <<>> /\ \A j \in 1..Len(pre) : pre[j] = "null"

\* the mapping a new process of this program would load from the cache file
Loaded ==
    IF prog = "manga" THEN Manga_load_cache(disk).cache ELSE load_cache(disk)

\* C1: a run of the smart converter that follows a completed run over the same
\* list, all of whose searches were answered definitively, sends no request at
\* all: no AniList search and no IMDB/TMDB title lookup for any candidate.
C1_SecondRunNoNetwork ==
    (prog = "smart" /\ prev.written /\ prev.clean /\ Settled)
        => (last.searches = 0 /\ last.lookups = 0)

\* C2: a candidate the previous run resolved to media id R is resolved to R again
\* by the run that starts from the cache that run persisted, and a candidate
\* that had failed and whose search strings are all tombstoned fails again.
C2_SecondRunSameOutcome ==
    (prog = "smart" /\ prev.written /\ Settled)
        => /\ prev.ids[last.cand] # 0 => last.mediaId = prev.ids[last.cand]
           /\ (prev.ids[last.cand] = 0 /\ AllNull(last.pre)) => last.mediaId = 0

\* C3: a candidate is recorded as failed only if none of its search strings has a
\* match (a non-null value) in the cache, be it cached before or just returned.
C3_FailedOnlyWithoutMatch ==
    (prog = "smart" /\ Settled /\ last.mediaId = 0)
        => \A j \in 1..Len(last.attempts) :
              ~(last.attempts[j] \in DOMAIN search_cache
                /\ Truthy(search_cache[last.attempts[j]]))

\* the report rows (entries and failed) that are about candidate c
RowsOf(c) ==
    Cardinality({j \in 1..Len(report.entries) : report.entries[j].cand = c})
    + Cardinality({j \in 1..Len(report.failed) : report.failed[j].cand = c})

\* C4: in a written report every candidate of the input appears exactly once, in
\* entries or in failed, and successful + failed = total.
C4_EveryCandidateOnce ==
    report.written
        => /\ report.successful + report.failedCount = report.total
           /\ \A c \in 1..report.total : RowsOf(c) = 1

KeyUniverse ==
    DOMAIN putLog \cup DOMAIN search_cache \cup DOMAIN disk.members
    \cup {anime_list[c].title : c \in 1..Len(anime_list)}
    \cup {StripParens(anime_list[c].title) : c \in 1..Len(anime_list)}

\* C6: a read is three-valued: a key never written is NOT_PRESENT, in memory and in
\* what a new process loads from the file; a key whose last write stored a
\* no-match reads as None, in memory and after the file is loaded again.
C6_ThreeValuedRead ==
    (pc \in {"mapping", "next", "search", "done"})
        => \A key \in KeyUniverse :
              /\ key \notin DOMAIN putLog
                    => /\ CacheGet(search_cache, key) = NOT_PRESENT
                       /\ CacheGet(Loaded, key) = NOT_PRESENT
              /\ (key \in DOMAIN putLog /\ putLog[key] = PyNone)
                    => /\ CacheGet(search_cache, key) = PyNone
                       /\ CacheGet(Loaded, key) = PyNone
                       /\ CacheGet(search_cache, key) # NOT_PRESENT

\* a process that started from a file holding a tombstone reads it back
C6_Witness ==
    /\ prev.written
    /\ pc = "next"
    /\ \E key \in DOMAIN putLog : putLog[key] = PyNone /\ ~wrote
    /\ \E c \in 1..Len(anime_list) : anime_list[c].title \notin DOMAIN putLog

\* C7: a candidate whose IMDB id is in the id mapping gets the mapped media id and
\* causes neither a title search nor an IMDB title lookup.
C7_MappedSkipsSearch ==
    (prog = "step2" /\ Settled /\ anime_list[last.cand].imdb \in DOMAIN id_mapping)
        => /\ last.mediaId = id_mapping[anime_list[last.cand].imdb]
           /\ last.searches = 0
           /\ last.lookups = 0
           /\ last.attempts = <<>>

C7_Witness ==
    /\ prog = "step2"
    /\ Settled
    /\ anime_list[last.cand].imdb \in DOMAIN id_mapping
    /\ Len(converted_list) > 0

\* C8: once the process has written a cache entry, whenever it is between two
\* operations the cache file holds exactly the in-memory mapping.
C8_WriteThrough ==
    wrote => disk = JsonDump(search_cache)

C8_Witness ==
    /\ wrote
    /\ \E key \in DOMAIN search_cache : search_cache[key] = PyNone
    /\ \E key \in DOMAIN search_cache : Truthy(search_cache[key])

\* C9: whatever the point at which a process was terminated, the cache a later
\* process has loaded holds every lookup outcome whose write had completed.
C9_NoLossOnTermination ==
    (pc \in {"mapping", "next", "search", "done"})
        => \A key \in DOMAIN putLog :
              key \in DOMAIN search_cache /\ search_cache[key] = putLog[key]

\* C10: the cache only gains keys and the value under a key never changes, in the
\* memory of a process, from one process to the next, and in the file.
C10_NeverOverwritten ==
    [][ /\ \A key \in DOMAIN search_cache :
              key \in DOMAIN search_cache' /\ search_cache'[key] = search_cache[key]
        /\ \A key \in DOMAIN Loaded :
              key \in DOMAIN Loaded' /\ Loaded'[key] = Loaded[key] ]_vars

\* a candidate was settled whose search strings were partly in the cache already,
\* one of them as a tombstone, while a new key was written
C10_Witness ==
    /\ Settled
    /\ \E j \in 1..Len(last.pre) : last.pre[j] = "null"
    /\ last.searches > 0
    /\ wrote

----------------------------------------------------------------------------
(* Properties of the remote client (SpecClient) and of the driver (Spec).   *)

\* the request of the last call ended without a definitive answer
CallFailed == call.outcome \in {"exception", "status", "limited"}

\* C11: a search that ended in an exception, a status other than 200 or a 429
\* returns None and leaves the cache as it was, in memory and in the file, so
\* that the key is still absent from both and a later attempt queries it again.
C11_ErrorLeavesCacheAlone ==
    CallFailed
        => /\ call.result = PyNone
           /\ search_cache = call.before
           /\ disk = call.fileBefore
           /\ CacheGet(search_cache, call.key) = NOT_PRESENT
           /\ CacheGet(Loaded, call.key) = NOT_PRESENT

\* a rate-limited search made while the cache already held entries
C11_Witness ==
    /\ call.outcome = "limited"
    /\ search_cache # EmptyCache
    /\ prog = "smart"

\* the search strings of the candidate settled last that were not in the cache
\* when its turn came
MissedAttempts ==
    {j \in 1..Len(last.attempts) : last.attempts[j] # <<>> /\ last.pre[j] = "miss"}

\* the process is between two candidates, or has written its report
BetweenCandidates == Settled /\ pc \in {"next", "done"}

\* C12: when the searches of a candidate that ends without a match were all
\* answered 200 with an empty list, every one of them is in the cache as None, in
\* memory and in the file a later run loads; a candidate without a match is in
\* failed_searches, and in the failed list of the report once it is written.
C12_EmptyResultTombstoned ==
    /\ (BetweenCandidates /\ last.mediaId = 0)
          => /\ \E j \in 1..Len(failed_searches) : failed_searches[j].cand = last.cand
             /\ last.errors = 0
                   => \A j \in MissedAttempts :
                         /\ CacheGet(search_cache, last.attempts[j]) = PyNone
                         /\ CacheGet(Loaded, last.attempts[j]) = PyNone
    /\ report.written
          => \A c \in 1..report.total :
                (\A j \in 1..Len(report.entries) : report.entries[j].cand # c)
                    => \E j \in 1..Len(report.failed) : report.failed[j].cand = c

\* a candidate failed after two searches that both answered with an empty list
C12_Witness ==
    /\ BetweenCandidates
    /\ last.mediaId = 0
    /\ last.errors = 0
    /\ last.searches = 2
    /\ report.written

\* C13: for the candidate settled last by the smart converter, the media id
\* used is that of the earliest search string with a non-null value in the
\* cache (none: the candidate failed), and exactly one search was sent for
\* each string up to that one that was not cached, none for a later one.
C13_FirstMatchInPriorityOrder ==
    (prog = "smart" /\ BetweenCandidates)
        => LET h == FirstCachedHit(last.attempts, 1)
               upto == IF h > 0 THEN h ELSE Len(last.attempts)
           IN  /\ h > 0 => last.mediaId = search_cache[last.attempts[h]].id
               /\ h = 0 => last.mediaId = 0
               /\ last.searches = Cardinality({j \in MissedAttempts : j <= upto})

\* the non-empty search strings of the candidate settled last that are not in
\* the cache
UncachedAttempts ==
    {j \in 1..Len(last.attempts) :
        last.attempts[j] # <<>> /\ last.attempts[j] \notin DOMAIN search_cache}

\* C14 as stated: when a candidate is recorded as failed every one of its
\* non-empty search strings is in the cache.
C14_FailedMeansAllCached ==
    (BetweenCandidates /\ last.mediaId = 0)
        => UncachedAttempts = {}

\* C14 amended: when a candidate is recorded as failed, every non-empty search
\* string of it is in the cache except those whose search, sent for this
\* candidate, ended in an error (429, another status, an exception).
C14_FailedMeansAllAnsweredCached ==
    (BetweenCandidates /\ last.mediaId = 0)
        => Cardinality(UncachedAttempts) = last.errors

\* a candidate failed with one search answered by an empty list and one by an error
C14_Witness ==
    /\ prog = "smart"
    /\ BetweenCandidates
    /\ last.mediaId = 0
    /\ last.errors = 1
    /\ last.searches = 2

\* the candidates of a list are in the order of the input
InInputOrder(list) ==
    \A a \in 1..Len(list), b \in 1..Len(list) : a < b => list[a].cand <= list[b].cand

\* C15: converted_list and failed_searches, and the entries and failed lists of
\* the report written from them, hold the candidates in the order of the input.
C15_ReportPreservesInputOrder ==
    /\ InInputOrder(converted_list)
    /\ InInputOrder(failed_searches)
    /\ InInputOrder(report.entries)
    /\ InInputOrder(report.failed)

\* a report of two resolved candidates, one from the cache and one from the network
C15_Witness ==
    /\ report.written
    /\ \E a \in 1..Len(report.entries), b \in 1..Len(report.entries) :
          report.entries[a].cand < report.entries[b].cand
    /\ prev.written
    /\ wrote

\* C16: when a request is sent, at least the configured delay has been slept
\* since the request before it.
C16_MinimumDelayBetweenRequests ==
    gap = -1 \/ gap >= api_delay

C18_EveryEntryCountedOnce ==
    pc = "finished"
        => /\ success_count + failed_count = Len(entries)
           /\ submitted = Len(entries)

\* C19: when load_id_mapping has returned False the run has stopped: no candidate
\* is settled, no search has written the cache and no report is written.
C19_MappingFailureStopsRun ==
    mapping_loaded = "no"
        => /\ pc = "aborted"
           /\ last = NoRow
           /\ converted_list = <<>>
           /\ failed_searches = <<>>
           /\ ~wrote
           /\ ~report.written
           /\ search_cache = Loaded

\* the download fails for a run that follows a completed one
C19_Witness ==
    /\ mapping_loaded = "no"
    /\ prev.written
    /\ search_cache # EmptyCache

HasPrefix(id) == Len(id) >= 2 /\ id[1] = "t" /\ id[2] = "t"

\* the canonical form of an IMDB id: 'tt' followed by the numeric body
Canonical(id) ==
    <<"t", "t">> \o (IF HasPrefix(id) THEN SubSeq(id, 3, Len(id)) ELSE id)

\* C20: once the table is loaded, every entry with both fields set is found under
\* the canonical form of its IMDB id, given with or without the prefix, and every
\* key of the mapping is canonical (normalising it again changes nothing).
C20_CanonicalKey ==
    mapping_loaded = "yes"
        => /\ \A j \in 1..Len(id_table) :
                 (id_table[j].imdb_id # <<>> /\ id_table[j].anilist_id # 0)
                     => MappingGet(Canonical(id_table[j].imdb_id)) # 0
           /\ \A key \in DOMAIN id_mapping :
                 /\ Canonical(key) = key
                 /\ <<"t", "t">> \o ReplaceTT(key) = key

\* a candidate with id tt2 is resolved through an entry the table gives as '2'
C20_Witness ==
    /\ mapping_loaded = "yes"
    /\ \E j \in 1..Len(id_table) : id_table[j].imdb_id = <<"2">>
    /\ Settled
    /\ anime_list[last.cand].imdb = tt2
    /\ last.mediaId = 2
    /\ last.searches = 0

----------------------------------------------------------------------------
(* Properties of the record functions (SpecRecord), of the search           *)
(* functions (SpecClient) and of the drivers (Spec).                        *)

NoDuplicates(seq) == \A a \in 1..Len(seq), b \in 1..Len(seq) : a # b => seq[a] # seq[b]

\* index of the first occurrence of x in seq (0: x is not in seq)
IndexOf(x, seq) ==
    IF InSeq(x, seq)
    THEN CHOOSE j \in 1..Len(seq) : seq[j] = x /\ \A m \in 1..(j - 1) : seq[m] # x
    ELSE 0

\* the title has a parenthetical group to remove
HasParens(title) == StripParens(title) # title

\* C21 as stated: search_attempts holds the raw title, holds no string twice,
\* holds the title without its parenthetical groups, and the raw title comes
\* before that variant.
C21_RawTitleBeforeStripped ==
    answer.op = "expand"
        => /\ InSeq(row.title, answer.attempts)
           /\ NoDuplicates(answer.attempts)
           /\ HasParens(row.title)
                 => /\ InSeq(StripParens(row.title), answer.attempts)
                    /\ IndexOf(row.title, answer.attempts)
                          < IndexOf(StripParens(row.title), answer.attempts)

\* C21 amended: search_attempts starts with the title get_best_english_title
\* chose, holds the raw title, no string twice, and the title without its
\* parenthetical groups; the raw title comes before that variant unless the
\* variant is itself the title chosen, and then the variant is first and the
\* raw title second.
C21_BestTitleFirstThenRaw ==
    answer.op = "expand"
        => /\ answer.attempts[1] = answer.english_title
           /\ InSeq(row.title, answer.attempts)
           /\ NoDuplicates(answer.attempts)
           /\ HasParens(row.title)
                 => /\ InSeq(StripParens(row.title), answer.attempts)
                    /\ IF answer.english_title = StripParens(row.title)
                       THEN answer.attempts[2] = row.title
                       ELSE IndexOf(row.title, answer.attempts)
                               < IndexOf(StripParens(row.title), answer.attempts)

\* "Foo (2020)" was expanded into "Foo (2020)", "Foo"
C21_Witness ==
    /\ answer.op = "expand"
    /\ row.title = <<"a", SP, LP, "2", RP>>
    /\ answer.attempts = << <<"a", SP, LP, "2", RP>>, <<"a">> >>

\* C22: for a title that holds the separator " / ", every segment of the split
\* is one of the search strings of search_attempts.
C22_CompositeSegmentsSearched ==
    (answer.op = "expand" /\ Len(Split(row.title)) > 1)
        => \A j \in 1..Len(Split(row.title)) : InSeq(Split(row.title)[j], answer.attempts)

\* C23: every call of the classifier on the same row returns the same verdict,
\* changes no state and sends no request.
C23_ClassifierDeterministic ==
    answer.op = "classify"
        => /\ \A a \in 1..Len(verdicts), b \in 1..Len(verdicts) : verdicts[a] = verdicts[b]
           /\ ~answer.mutated
           /\ ~answer.requested

\* the info string has an author field whose value holds a kana or an ideograph
AuthorHasCJK(info) ==
    \E j \in 1..Len(info) :
        info[j].key = "author" /\ HasCharIn(UpToComma(info[j].val), Kana \cup Han)

\* C24 as stated: is_likely_manga is true when the links hold the marker, or
\* the lower-cased title holds a keyword, or the author field and the title both
\* hold characters of the CJK ranges (kana or ideographs), and false otherwise.
C24_DecisionOrderCJKTitle ==
    (answer.op = "classify" /\ prog = "manga")
        => answer.verdict =
              (\/ HasMarker(row.links)
               \/ HasCharIn(Lower(row.title), MangaKeywords)
               \/ AuthorHasCJK(row.info) /\ HasCharIn(row.title, Kana \cup Han))

\* C24 amended: the third rule asks for a kana in the title; an ideograph in
\* the title is not enough, while the author may hold either.
C24_DecisionOrderKanaTitle ==
    (answer.op = "classify" /\ prog = "manga")
        => answer.verdict =
              (\/ HasMarker(row.links)
               \/ HasCharIn(Lower(row.title), MangaKeywords)
               \/ AuthorHasCJK(row.info) /\ HasCharIn(row.title, Kana))

\* a row accepted by the third rule alone: an author written in ideographs and a
\* kana title, no marker and no keyword
C24_Witness ==
    /\ answer.op = "classify"
    /\ prog = "manga"
    /\ answer.verdict
    /\ ~HasMarker(row.links)
    /\ row.title = <<KA>>
    /\ row.info = <<Field("author", <<KI>>)>>

\* C25: a row that passes the classifier becomes a candidate whose status is
\* COMPLETED, CURRENT, PLANNING or DROPPED for complete, progress, wishlist or
\* dropped and PLANNING for anything else, and whose score is the number the
\* rating spells when the rating is made of digits and None otherwise.
C25_CandidateStatusAndScore ==
    (answer.op = "parse" /\ answer.passed)
        => LET c == answer.candidate
               digits == row.rating # <<>>
                            /\ \A j \in 1..Len(row.rating) : row.rating[j] \in Digits
           IN  /\ c.status = IF row.status = "complete" THEN "COMPLETED"
                             ELSE IF row.status = "progress" THEN "CURRENT"
                             ELSE IF row.status = "dropped" THEN "DROPPED"
                             ELSE "PLANNING"
               /\ digits <=> c.score # NoScore
               /\ row.rating = <<"9">> => c.score = 9
               /\ row.rating = <<"1", "0">> => c.score = 10
               /\ row.rating = <<"0">> => c.score = 0
               /\ c.title = row.title

\* the row of the scenario: a kana title, a bgm.tv link, status complete, rating 9
C25_Witness ==
    /\ answer.op = "parse"
    /\ answer.passed
    /\ row.title = <<KA>>
    /\ row.links = <<Link("bgm.tv", "subject", <<"1">>)>>
    /\ row.status = "complete"
    /\ row.rating = <<"9">>
    /\ answer.candidate.status = "COMPLETED"
    /\ answer.candidate.score = 9

\* C26: a search answered 200 with a non-empty ranked list returns the first
\* element of the list and stores that element under the key, in memory and in
\* the file.
C26_FirstOfRankedList ==
    (call.requests = 1 /\ call.outcome = "match")
        => /\ call.ranked # <<>>
           /\ call.result = Media(call.ranked[1])
           /\ CacheGet(search_cache, call.key) = Media(call.ranked[1])
           /\ CacheGet(Loaded, call.key) = Media(call.ranked[1])

\* the mapper's search was answered with a best match and a runner-up
C26_Witness ==
    /\ prog = "step2"
    /\ call.outcome = "match"
    /\ Len(call.ranked) = 2
    /\ call.ranked[1] # call.ranked[2]

\* the process has been constructed and has not settled a candidate yet
JustConstructed == i = 1 /\ ~wrote /\ last = NoRow

\* C27: a process constructed with no cache file has an empty cache and has not
\* crashed; a process constructed from a cache file holds exactly the keys and
\* values written by the processes before it.
C27_LoadAllAtConstruction ==
    JustConstructed
        => /\ pc # "crashed"
           /\ disk = NoFile => search_cache = EmptyCache
           /\ disk.kind = "json" => search_cache = putLog

\* a process started on a file that holds a match and a tombstone
C27_Witness ==
    /\ JustConstructed
    /\ prev.written
    /\ \E key \in DOMAIN search_cache : search_cache[key] = PyNone
    /\ \E key \in DOMAIN search_cache : Truthy(search_cache[key])

Namespaces == {"imdb", "year", "bgm", "douban", "tmdb"}

\* the host a link namespace is probed on
HostOf(ns) ==
    IF ns = "bgm" THEN "bgm.tv"
    ELSE IF ns = "douban" THEN "movie.douban.com"
    ELSE "themoviedb.org"

\* the info string and the links string with everything of another namespace removed
OnlyInfo(ns, info) == SelectSeq(info, LAMBDA f : f.key = ns)

OnlyLinks(ns, links) == SelectSeq(links, LAMBDA u : u.host = HostOf(ns))

\* the pattern of the namespace occurs in the row
ProbeMatches(ns, r) ==
    IF ns = "imdb"
    THEN \E j \in 1..Len(r.info) :
            LET v == r.info[j].val
            IN  /\ r.info[j].key = "imdb"
                /\ Len(v) >= 3 /\ v[1] = "t" /\ v[2] = "t" /\ v[3] \in Digits
    ELSE IF ns = "year"
    THEN \E j \in 1..Len(r.info) :
            LET v == r.info[j].val
            IN  /\ r.info[j].key = "year"
                /\ Len(v) >= 4 /\ \A m \in 1..4 : v[m] \in Digits
    ELSE \E j \in 1..Len(r.links) :
            LET u == r.links[j]
            IN  /\ u.host = HostOf(ns)
                /\ u.path = (IF ns = "tmdb" THEN "tv" ELSE "subject")
                /\ u.id # <<>> /\ u.id[1] \in Digits

\* C28: external_ids has a key for a namespace exactly when the pattern of the
\* namespace occurs in the row; the value under a key is what the row gives
\* with everything of the other namespaces removed; a row no pattern occurs in
\* gives the empty mapping.
C28_IndependentProbes ==
    answer.op = "extract"
        => /\ \A ns \in Namespaces : (ns \in DOMAIN answer.ids) <=> ProbeMatches(ns, row)
           /\ DOMAIN answer.ids \subseteq Namespaces
           /\ \A ns \in DOMAIN answer.ids :
                 /\ ns \in DOMAIN ExternalIds(OnlyInfo(ns, row.info), OnlyLinks(ns, row.links))
                 /\ answer.ids[ns]
                       = ExternalIds(OnlyInfo(ns, row.info), OnlyLinks(ns, row.links))[ns]
           /\ (\A ns \in Namespaces : ~ProbeMatches(ns, row)) => answer.ids = NoIds

\* a row that gives a year but no IMDB id, and a TMDB id next to a Douban id
C28_Witness ==
    /\ answer.op = "extract"
    /\ DOMAIN answer.ids = {"year", "douban", "tmdb"}
    /\ answer.ids["year"] = <<"2", "0", "1", "1">>

\* C29: the searchTitle of every entry of converted_list is a search string
\* under which the cache holds the media id of the entry.
C29_SearchTitleProducedTheId ==
    prog = "smart"
        => \A j \in 1..Len(converted_list) :
              CacheGet(search_cache, converted_list[j].searchTitle)
                  = Media(converted_list[j].mediaId)

\* C30: a candidate the mapper records as failed has been through the title
\* search: a search string was derived for it, and a search was sent or its
\* tombstone was found in the cache.
C30_FailedOnlyAfterTitleSearch ==
    (prog = "step2" /\ BetweenCandidates /\ last.mediaId = 0)
        => /\ last.attempts # <<>>
           /\ last.searches = 1 \/ last.pre[1] = "null"

\* C39: check_imdb_for_anime writes its cache only after a page fetch answered
\* 200; a fetch that failed returns false and writes nothing; an id that is in
\* the cache is not fetched; and the file holds the whole cache whenever the
\* check has returned.
C39_ImdbCacheOnlyAfterSuccess ==
    (prog = "step1" /\ answer.op = "classify")
        => /\ answer.mutated => answer.page \in {"animation", "other"}
           /\ answer.page \in {"notfound", "exception"}
                 => ~answer.verdict /\ ~answer.mutated
           /\ answer.cached => ~answer.requested /\ ~answer.mutated
           /\ imdb_anime_cache # EmptyImdbCache
                 => imdb_cache_file = [exists |-> TRUE, content |-> imdb_anime_cache]
           /\ imdb_anime_cache = EmptyImdbCache => ~imdb_cache_file.exists

\* the second check of an id whose page was fetched by the first: answered from
\* the cache, which is in the file
C39_Witness ==
    /\ prog = "step1"
    /\ Len(verdicts) = 2
    /\ answer.cached
    /\ ~answer.requested
    /\ answer.verdict
    /\ imdb_cache_file.exists
    /\ tt1 \in DOMAIN imdb_cache_file.content

----------------------------------------------------------------------------
(* delete_all_anilist.py: the entries of the user's list are fetched and    *)
(* shown one by one; the user answers each with a line of input.            *)

\* what the user may type at the prompt
Answers ==
    { <<"1">>, <<SP, "1", SP>>, <<"q">>, <<"Q">>, <<>>, <<"y">>, <<"1", "1">> }

\* input(...).strip().lower()
InputChoice(raw) == Lower(Strip(raw))

\* a loop that deletes on every answer but q
DeleteDecisionDeleteByDefault(choice) ==
    IF choice = <<"q">> THEN "quit" ELSE "delete"

\* the if / elif / else on choice
DeleteDecision(choice) ==
    IF choice = <<"q">> THEN "quit"
    ELSE IF choice = <<"1">> THEN "delete"
    ELSE "keep"

\* answers to a delete mutation: status 200, another status, an exception
DeleteResponses == {"ok", "status", "exception"}

\* history of one prompt: the entry's position, the line typed, whether a delete
\* mutation was sent and how it ended
Prompt(pos, raw, request, r) == [pos |-> pos, raw |-> raw, request |-> request, r |-> r]

InitDelete ==
    /\ prog = "delete"
    /\ anime_list = <<>>
    /\ id_table = <<>>
    /\ disk = NoFile
    /\ search_cache = EmptyCache
    /\ pc = "fetch"
    /\ id_mapping = EmptyMapping
    /\ mapping_loaded = "unknown"
    /\ i = 1
    /\ english_title = <<>>
    /\ search_attempts = <<>>
    /\ k = 0
    /\ converted_list = <<>>
    /\ failed_searches = <<>>
    /\ skipped_count = 0
    /\ report = NoReport
    /\ prev = Summary(NoReport)
    /\ cnet = NoNet
    /\ cpre = <<>>
    /\ last = NoRow
    /\ clean = TRUE
    /\ putLog = EmptyCache
    /\ wrote = FALSE
    /\ hitSearched = FALSE
    /\ api_delay = 15
    /\ call = NoCallRecord
    /\ waited = -1
    /\ gap = -1
    /\ entries \in EntryLists \cup {<<>>}
    /\ success_count = 0
    /\ failed_count = 0
    /\ failed_entries = <<>>
    /\ submitted = 0
    /\ IdleRecord
    /\ IdleSide

\* what the delete script leaves alone
deleteRest ==
    <<progVars, recordVars, mapVars, loopVars, converted_list, failed_searches, report, prev,
      cnet, cpre, last, clean, cacheVars, api_delay, call, waited, gap, entries,
      success_count, failed_count, failed_entries, failed_file, still_failed,
      neodb_metadata, detailed, validation, passes, peer>>

\* the Viewer query and the MediaListCollection query: the function returns when
\* either is not answered 200 or when the list is empty
DeleteFetch ==
    /\ prog = "delete"
    /\ pc = "fetch"
    /\ \E viewer \in BOOLEAN, collection \in BOOLEAN :
        pc' = IF viewer /\ collection /\ entries # <<>> THEN "confirm" ELSE "done"
    /\ UNCHANGED <<deleteRest, i, skipped_count, submitted, sent, deleted_count>>

\* one iteration of `for i, entry in enumerate(all_entries, 1)`
DeleteEntry ==
    /\ prog = "delete"
    /\ pc = "confirm"
    /\ i <= Len(entries)
    /\ \E raw \in Answers, r \in DeleteResponses :
        LET decision == DeleteDecision(InputChoice(raw))
        IN  /\ pc' = IF decision = "quit" THEN "done" ELSE "confirm"
            /\ i' = IF decision = "quit" THEN i ELSE i + 1
            /\ submitted' = IF decision = "delete" THEN submitted + 1 ELSE submitted
            /\ deleted_count' = IF decision = "delete" /\ r = "ok"
                                THEN deleted_count + 1 ELSE deleted_count
            /\ skipped_count' = IF decision = "keep"
                                THEN skipped_count + 1 ELSE skipped_count
            /\ sent' = Append(sent, Prompt(i, raw, decision = "delete",
                                           IF decision = "delete" THEN r ELSE "none"))
    /\ UNCHANGED deleteRest

\* the loop has gone through every entry: the counts are printed
DeleteFinish ==
    /\ prog = "delete"
    /\ pc = "confirm"
    /\ i > Len(entries)
    /\ pc' = "done"
    /\ UNCHANGED <<deleteRest, i, skipped_count, submitted, sent, deleted_count>>

NextDelete ==
    \/ DeleteFetch
    \/ DeleteEntry
    \/ DeleteFinish

SpecDelete == InitDelete /\ [][NextDelete]_vars

\* the prompts of the run that a delete mutation was sent for
Requested == {j \in 1..Len(sent) : sent[j].request}

\* the line typed is a 1, q or Q once the blanks around it are removed
Typed(raw, chars) == \E a \in 0..Len(raw), b \in 0..Len(raw) :
    /\ a + b + 1 = Len(raw)
    /\ raw[a + 1] \in chars
    /\ \A j \in (1..a) \cup ((a + 2)..Len(raw)) : raw[j] = SP

\* C40: a delete mutation is sent for an entry only when the user answered 1
\* for that entry; an answer of q ends the loop and nothing is sent after it;
\* any other answer keeps the entry; and deleted + kept is at most the number
\* of entries fetched.
C40_DeleteOnlyOnConfirmation ==
    prog = "delete"
        => /\ \A j \in 1..Len(sent) :
                 /\ sent[j].pos = j
                 /\ sent[j].request <=> Typed(sent[j].raw, {"1"})
                 /\ Typed(sent[j].raw, {"q", "Q"}) => j = Len(sent) /\ pc = "done"
           /\ submitted = Cardinality(Requested)
           /\ deleted_count = Cardinality({j \in Requested : sent[j].r = "ok"})
           /\ skipped_count
                 = Cardinality({j \in 1..Len(sent) : ~Typed(sent[j].raw, {"1", "q", "Q"})})
           /\ deleted_count + skipped_count <= Len(entries)

\* the first entry was deleted on 1, the second kept on another answer
C40_Witness ==
    /\ prog = "delete"
    /\ pc = "done"
    /\ Len(sent) = 2
    /\ sent[1].request /\ sent[1].r = "ok"
    /\ sent[2].raw = <<"y">>
    /\ deleted_count = 1
    /\ skipped_count = 1

----------------------------------------------------------------------------
(* The import batch with its side file and CSV metadata, followed by passes *)
(* of retry_failed.py over tmp/failed_entries.json.                         *)

\* most retry passes run after an import
MaxPasses == 2

\* titles of the CSV rows the entries were converted from
BatchTitles == {<<"a">>, <<KA>>}

\* data['detailedResults']['successful'] for the entries e: per entry its
\* mediaId, the title of its CSV row and whether it carries a score
DetailLists(e) ==
    { [j \in 1..Len(e) |-> [mediaId |-> e[j], originalTitle |-> t[j], scored |-> sc]] :
        t \in [1..Len(e) -> BatchTitles], sc \in BOOLEAN }

\* the CSV file as load_neodb_metadata returns it
MetadataTables ==
    { <<>>,
      <<Meta(<<"a">>, TRUE, TRUE, TRUE)>>,
      <<Meta(<<"a">>, TRUE, TRUE, TRUE), Meta(<<KA>>, TRUE, TRUE, TRUE)>>,
      <<Meta(<<KA>>, TRUE, TRUE, TRUE), Meta(<<"a">>, FALSE, FALSE, TRUE)>> }

\* the side file when the import starts: absent, or left by an earlier run
SideFiles == {NoSideFile, [exists |-> TRUE, list |-> <<1>>, writer |-> "earlier"]}

InitBatch ==
    /\ prog \in ImportPrograms
    /\ anime_list = <<>>
    /\ id_table = <<>>
    /\ disk = NoFile
    /\ search_cache = EmptyCache
    /\ pc = "validate"
    /\ id_mapping = EmptyMapping
    /\ mapping_loaded = "unknown"
    /\ i = 1
    /\ english_title = <<>>
    /\ search_attempts = <<>>
    /\ k = 0
    /\ converted_list = <<>>
    /\ failed_searches = <<>>
    /\ skipped_count = 0
    /\ report = NoReport
    /\ prev = Summary(NoReport)
    /\ cnet = NoNet
    /\ cpre = <<>>
    /\ last = NoRow
    /\ clean = TRUE
    /\ putLog = EmptyCache
    /\ wrote = FALSE
    /\ hitSearched = FALSE
    /\ api_delay = ConfiguredDelay(prog)
    /\ call = NoCallRecord
    /\ waited = -1
    /\ gap = -1
    /\ entries \in EntryLists
    /\ success_count = 0
    /\ failed_count = 0
    /\ failed_entries = <<>>
    /\ submitted = 0
    /\ IdleRecord
    /\ failed_file \in SideFiles
    /\ still_failed = <<>>
    /\ neodb_metadata \in MetadataTables
    /\ detailed \in DetailLists(entries)
    /\ sent = <<>>
    /\ validation = "none"
    /\ passes = 0
    /\ peer = NoPeer
    /\ deleted_count = 0

\* a retry loop that keeps every entry queued
RetryOutcomeKeepAll(r) ==
    [success |-> IF r = "ok" THEN 1 ELSE 0,
     failed  |-> IF r = "ok" THEN 0 ELSE 1,
     queued  |-> TRUE,
     sleeps  |-> IF r = "exception" THEN <<>> ELSE <<ImportDelay>>]

\* the try/except of the retry loop body under answer r: response.json() is not
\* called, so a body that is no JSON is one more status other than 200
RetryOutcome(r) ==
    [success |-> IF r = "ok" THEN 1 ELSE 0,
     failed  |-> IF r = "ok" THEN 0 ELSE 1,
     queued  |-> r # "ok",
     sleeps  |-> IF r = "exception" THEN <<>> ELSE <<ImportDelay>>]

\* retry_failed_imports is started: it returns when the side file does not exist,
\* and loads the file otherwise
RetryStart ==
    /\ prog = "import"
    /\ pc \in {"finished", "retried"}
    /\ passes < MaxPasses
    /\ passes' = passes + 1
    /\ IF failed_file.exists
       THEN /\ pc' = "retry"
            /\ entries' = failed_file.list
            /\ i' = 1
            /\ success_count' = 0
            /\ failed_count' = 0
            /\ still_failed' = <<>>
            /\ sent' = <<>>
       ELSE /\ pc' = "nofile"
            /\ UNCHANGED <<entries, i, success_count, failed_count, still_failed, sent>>
    /\ UNCHANGED <<progVars, recordVars, mapVars, loopVars, listVars, report, prev, cnet,
                   cpre, last, clean, cacheVars, api_delay, call, neodb_metadata, detailed,
                   peer, deleted_count, failed_entries, submitted, waited, gap,
                   failed_file, validation>>

\* one iteration of `for entry in entries` of the retry pass
RetryEntry ==
    /\ prog = "import"
    /\ pc = "retry"
    /\ i <= Len(entries)
    /\ \E r \in MutationResponses :
        LET out == RetryOutcome(r)
        IN  /\ success_count' = success_count + out.success
            /\ failed_count' = failed_count + out.failed
            /\ still_failed' = IF out.queued THEN ListAppend(still_failed, entries[i])
                               ELSE still_failed
            /\ sent' = Append(sent, Mutation(i, r, ImportVariables(entries[i])))
            /\ RequestSent(out.sleeps)
    /\ submitted' = submitted + 1
    /\ i' = i + 1
    /\ UNCHANGED <<progVars, recordVars, mapVars, loopVars, listVars, report, prev, cnet,
                   cpre, last, clean, cacheVars, api_delay, call, neodb_metadata, detailed,
                   peer, deleted_count, failed_entries, passes, pc, entries, failed_file,
                   validation>>

\* the retry loop has ended: the side file is rewritten with still_failed, or
\* removed when still_failed is empty
RetryFinish ==
    /\ prog = "import"
    /\ pc = "retry"
    /\ i > Len(entries)
    /\ pc' = "retried"
    /\ failed_file' = IF still_failed # <<>>
                      THEN [exists |-> TRUE, list |-> still_failed, writer |-> "retry"]
                      ELSE NoSideFile
    /\ UNCHANGED <<batchRest, i, batchVars, waited, gap, sent, validation>>

NextBatch ==
    \/ ImportValidateToken
    \/ ImportEntry
    \/ ImportFinish
    \/ RetryStart
    \/ RetryEntry
    \/ RetryFinish

SpecBatch == InitBatch /\ [][NextBatch]_vars

\* the elements of seq at the positions of keep, in order
RECURSIVE Kept(_, _)
Kept(seq, keep) ==
    IF seq = <<>> THEN <<>>
    ELSE Kept(SubSeq(seq, 1, Len(seq) - 1), keep)
            \o (IF Len(seq) \in keep THEN <<seq[Len(seq)]>> ELSE <<>>)

\* the positions of the current pass whose mutation was not answered 200
NotSucceeded == {j \in 1..Len(sent) : sent[j].r # "ok"}

\* C31: after a retry pass the side file holds exactly the entries whose retry
\* did not succeed, in their order in the file the pass read; it is removed
\* when every retry succeeded; and it is never longer than the file read.
C31_RetryFileIsStillFailed ==
    (prog = "import" /\ pc = "retried")
        => /\ Len(sent) = Len(entries)
           /\ IF NotSucceeded = {}
              THEN failed_file = NoSideFile
              ELSE /\ failed_file.exists
                   /\ failed_file.list = Kept(entries, NotSucceeded)
           /\ Len(failed_file.list) <= Len(entries)

\* a pass over two queued entries: the first succeeded, the second did not
C31_Witness ==
    /\ prog = "import"
    /\ pc = "retried"
    /\ Len(entries) = 2
    /\ sent[1].r = "ok"
    /\ sent[2].r # "ok"
    /\ failed_file.list = <<entries[2]>>

\* C32: when the import has finished the side file lists exactly the entries
\* the run queued; after a run that queued nothing the file holds no entry.
C32_SideFileIsThisRunsQueue ==
    (prog \in ImportPrograms /\ pc = "finished")
        => failed_file.list = failed_entries

\* how often x occurs in seq
Count(x, seq) == Cardinality({j \in 1..Len(seq) : seq[j] = x})

\* C33: the side list the import writes holds only entries whose mutation did
\* not succeed, no entry more often than its mutation failed, and every entry
\* whose mutation was rate limited or raised.
C33_SideListIsFailedSubset ==
    (prog \in ImportPrograms /\ pc = "finished" /\ failed_file.writer = prog)
        => /\ \A n \in 1..Len(failed_file.list) :
                 \E j \in NotSucceeded : entries[j] = failed_file.list[n]
           /\ \A m \in MediaIds :
                 Count(m, failed_file.list)
                    <= Cardinality({j \in NotSucceeded : entries[j] = m})
           /\ \A j \in 1..Len(sent) :
                 sent[j].r \in {"limited", "exception"}
                    => InSeq(entries[j], failed_file.list)

\* one entry was rejected for another reason, the other was rate limited
C33_Witness ==
    /\ prog \in ImportPrograms
    /\ pc = "finished"
    /\ failed_file.writer = prog
    /\ Len(entries) = 2
    /\ sent[1].r = "rejected"
    /\ sent[2].r = "limited"
    /\ failed_file.list = <<entries[2]>>

\* C34: a mutation is sent only after the validation query succeeded; when it
\* did not, the import has returned, no mutation was sent and the side file is
\* as it was found.
C34_NoMutationWithoutValidation ==
    prog \in ImportPrograms
        => /\ submitted > 0 => validation = "ok"
           /\ validation \notin {"none", "ok"}
                 => /\ pc = "aborted"
                    /\ submitted = 0
                    /\ sent = <<>>
                    /\ failed_file \in SideFiles

\* the validation query was answered 200 with an 'errors' member
C34_Witness ==
    /\ prog \in ImportPrograms
    /\ validation = "errors"
    /\ pc = "aborted"
    /\ submitted = 0

\* C35: in the manga import the notes, the completion date and the fallback
\* rating of a mutation are those of the CSV row the entry was converted from.
C35_MangaMetadataOfOwnRow ==
    prog = "import_manga"
        => \A j \in 1..Len(sent) :
              LET own == detailed[sent[j].pos].originalTitle
                  v == sent[j].variables
              IN  /\ v.notes \in {<<>>, own}
                  /\ v.completedAt \in {<<>>, own}
                  /\ v.rating \in {<<>>, own}

----------------------------------------------------------------------------
(* Two converter processes on the same search_cache.json: smart_convert_v2  *)
(* and step2_map_to_anilist.  Each loads the file when it is constructed    *)
(* and rewrites it from its own memory in save_cache.  One process runs at  *)
(* a time; prog, pc and search_cache are those of the process running, and  *)
(* peer holds those of the other one.                                       *)

SharedPrograms == {"smart", "step2"}

\* the other process has not been constructed yet
NewPeer(p) == [prog |-> p, pc |-> "new", cache |-> EmptyCache]

InitShared ==
    /\ prog \in SharedPrograms
    /\ anime_list = <<>>
    /\ id_table = <<>>
    /\ disk = NoFile
    /\ search_cache = load_cache(NoFile)
    /\ pc = "client"
    /\ id_mapping = EmptyMapping
    /\ mapping_loaded = "unknown"
    /\ i = 1
    /\ english_title = <<>>
    /\ search_attempts = <<>>
    /\ k = 0
    /\ converted_list = <<>>
    /\ failed_searches = <<>>
    /\ skipped_count = 0
    /\ report = NoReport
    /\ prev = Summary(NoReport)
    /\ cnet = NoNet
    /\ cpre = <<>>
    /\ last = NoRow
    /\ clean = TRUE
    /\ putLog = EmptyCache
    /\ wrote = FALSE
    /\ hitSearched = FALSE
    /\ api_delay = ConfiguredDelay(prog)
    /\ IdleClient
    /\ IdleRecord
    /\ failed_file = NoSideFile
    /\ still_failed = <<>>
    /\ neodb_metadata = <<>>
    /\ detailed = <<>>
    /\ sent = <<>>
    /\ validation = "none"
    /\ passes = 0
    /\ peer = NewPeer(CHOOSE p \in SharedPrograms : p # prog)
    /\ deleted_count = 0

\* what the two processes leave alone
sharedRest ==
    <<anime_list, id_table, mapVars, i, loopVars, listVars, report, prev, cnet, cpre, last,
      clean, wrote, hitSearched, clientVars, recordVars, failed_file, still_failed,
      neodb_metadata, detailed, sent, validation, passes, deleted_count>>

\* history: putLog with the keys the call stored and saved
Persisted(cache) ==
    [t \in DOMAIN putLog \cup (DOMAIN cache \ DOMAIN search_cache) |->
        IF t \in DOMAIN cache \ DOMAIN search_cache THEN cache[t] ELSE putLog[t]]

\* the process running calls its search function
SharedSearch ==
    /\ pc = "client"
    /\ \E tr \in MapperTitleResponses, resp \in Responses :
        /\ tr.title # NoTitle
        /\ prog = "smart" => ~IsCached(tr.title) /\ tr.year = "0000"
        /\ LET out == IF prog = "smart" THEN search_anilist_by_title(tr.title, resp)
                      ELSE Mapper_search_anilist_by_title(tr.title, tr.year, resp)
           IN  /\ out.saved
               /\ search_cache' = out.cache
               /\ disk' = out.file
               /\ putLog' = Persisted(out.cache)
    /\ UNCHANGED <<sharedRest, prog, pc, peer>>

\* the scheduler runs the other process; a process that has not run yet is
\* constructed, which loads the file
SharedSwitch ==
    /\ peer.pc # "done" \/ pc # "done"
    /\ prog' = peer.prog
    /\ pc' = IF peer.pc = "new" THEN "client" ELSE peer.pc
    /\ search_cache' = IF peer.pc = "new" THEN load_cache(disk) ELSE peer.cache
    /\ peer' = [prog |-> prog, pc |-> pc, cache |-> search_cache]
    /\ UNCHANGED <<sharedRest, disk, putLog>>

\* the process running ends
SharedFinish ==
    /\ pc = "client"
    /\ pc' = "done"
    /\ UNCHANGED <<sharedRest, prog, search_cache, disk, putLog, peer>>

NextShared ==
    \/ SharedSearch
    \/ SharedSwitch
    \/ SharedFinish

SpecShared == InitShared /\ [][NextShared]_vars

\* C36: when both processes have finished, every key either of them stored and
\* saved is in the file.
C36_NoEntryLostBetweenProcesses ==
    (pc = "done" /\ peer.pc = "done")
        => \A key \in DOMAIN putLog :
              disk.kind = "json" /\ key \in DOMAIN disk.members

----------------------------------------------------------------------------
(* The skipped count of the report (smart_convert_v2.py).                   *)

\* a step of the converter that settles candidate i
SmartSettles == prog = "smart" /\ i' = i + 1

\* C38: the skipped count of the report is the number of candidates settled with
\* no remote search call in the run.  skipped_count is 0 when the run starts and
\* is written to the report as it stands after the loop, so this is: the step
\* that settles a candidate adds one to skipped_count exactly when no search
\* was sent for the candidate.
C38_SkippedIsSettledWithoutSearch ==
    [][SmartSettles =>
          skipped_count' = skipped_count + (IF last'.searches = 0 THEN 1 ELSE 0)]_vars

----------------------------------------------------------------------------
(* One run of the driver of smart_convert_v2.py.  The process is           *)
(* sequential and nothing in the loop waits for anything but the answer of  *)
(* a request, so a step that is enabled is taken: weak fairness of the      *)
(* driver's steps.  A step is enabled exactly while the run has not written *)
(* its report (DriverRunning), and WF_vars(SmartStep) is written out with   *)
(* that state predicate for ENABLED <<SmartStep>>_vars.                     *)

\* a title with a season marker and a parenthesised part: four search strings
\* when the lookup of an English title succeeds
LongTitle == <<KA, DI, "2", LP, RP>>

DriverPool == SmartPool \cup { Cand(LongTitle, tt1, TRUE) }

InitDriver ==
    /\ prog = "smart"
    /\ anime_list \in Lists(DriverPool, MaxCands)
    /\ id_table = <<>>
    /\ disk = NoFile
    /\ search_cache = EmptyCache
    /\ pc = "next"
    /\ id_mapping = EmptyMapping
    /\ mapping_loaded = "unknown"
    /\ i = 1
    /\ english_title = <<>>
    /\ search_attempts = <<>>
    /\ k = 0
    /\ converted_list = <<>>
    /\ failed_searches = <<>>
    /\ skipped_count = 0
    /\ report = NoReport
    /\ prev = Summary(NoReport)
    /\ cnet = NoNet
    /\ cpre = <<>>
    /\ last = NoRow
    /\ clean = TRUE
    /\ putLog = EmptyCache
    /\ wrote = FALSE
    /\ hitSearched = FALSE
    /\ api_delay = ConfiguredDelay(prog)
    /\ IdleClient
    /\ IdleRecord
    /\ IdleSide

SmartStep ==
    \/ SmartBeginCandidate
    \/ SmartTryAttempt
    \/ SmartWriteReport

DriverRunning == pc \in {"next", "search"}

\* WF_vars(SmartStep): of the loop's steps written out, of the report step as it is
DriverFairness ==
    /\ []<>(~DriverRunning) \/ []<><<SmartStep>>_vars
    /\ WF_vars(SmartWriteReport)

\* one run, from the first candidate to the report
SpecDriver == InitDriver /\ [][SmartStep]_vars /\ DriverFairness

\* the distinct search strings among the first n of a list
Distinct(sa, n) == Cardinality({ sa[j] : j \in 1..n })

\* searches sent for a candidate: at most one for each distinct search string
\* tried so far, and at most four strings
SearchesBounded ==
    /\ pc = "search" =>
          /\ cnet.search <= Distinct(search_attempts, k - 1)
          /\ Len(search_attempts) <= 4
    /\ Settled =>
          /\ last.searches <= Distinct(last.attempts, Len(last.attempts))
          /\ Len(last.attempts) <= 4

\* a step of a run goes on to the next search string of the candidate or to
\* the next candidate, never back
DriverAdvances ==
    pc \in {"next", "search"} =>
        \/ i' = i + 1
        \/ i' = i /\ k' = k + 1
        \/ i' = i /\ pc' = "done"

ReportWritten == pc = "done" /\ report.written /\ report.total = Len(anime_list)

\* C37: a run of the driver over a finite candidate list ends with the report
\* written whatever the answers are; a candidate causes at most one search for
\* each distinct search string, of which there are at most four; no answer
\* makes the driver send a request again or go back to an earlier candidate.
C37_DriverTerminatesWithoutRetry ==
    /\ [] SearchesBounded
    /\ [][DriverAdvances]_vars
    /\ DriverRunning ~> ReportWritten

\* a report written after a candidate with four search strings, every one of
\* them searched and answered with an error
C37_Witness ==
    /\ ReportWritten
    /\ Len(last.attempts) = 4
    /\ last.searches = 4
    /\ last.errors = 4

====
